---- MODULE Spec2Model ----
(***************************************************************************)
(* Model of the scraping orchestration engine of ibvi-cli-rust:            *)
(*   src/src/scraper/mod.rs  FailureTracker, ScraperEngine, DelayPattern   *)
(*   src/src/diretrix_scraper/mod.rs  ensure_on_search_page                *)
(* The engine turns a job list into one ScraperResult per job, chunk by    *)
(* chunk, and feeds every result to the FailureTracker, which imposes a    *)
(* cooldown when failures cluster.                                         *)
(*                                                                         *)
(* Time is the Unix clock in seconds (FailureTracker::get_current_         *)
(* timestamp).  Synchronous code between two await points reads one clock  *)
(* value; a sleep of the orchestrator advances the clock by its duration,  *)
(* and Tick lets any further time pass.                                    *)
(*                                                                         *)
(* Spec is the engine; NavSpec is one call of ensure_on_search_page, with  *)
(* the page's answers chosen freely; DelaySpec draws the randomized        *)
(* delays.                                                                 *)
(***************************************************************************)
EXTENDS Integers, Sequences, FiniteSets, TLC

\* ---------------------------------------------------------------- bounds
MaxJobs == 3
MaxCalls == 2
MaxCallJobs == 2
MaxPool == 2
MaxTicks == 1
MaxSlots == 3
MaxQueueJobs == 3
MaxLimit == 5
MaxSessions == 6
\* BLOCK_SIZE of main.rs (12 there), scaled down with the job lists.
BLOCK_SIZE == 2
MaxNumberLen == 12
MaxStyleLen == 3
MaxRows == 2

\* ------------------------------------------------------ program constants
FailureWindowSecs == 600
CooldownThreshold == 2
CooldownSleepSecs == 120
CooldownDurationSecs == 1200
ChunkDelayMinSecs == 8
ChunkDelayMaxSecs == 12
RetryBackBelow == 4
QuickMinMs == 3000
QuickEndMs == 4000
NormalMinMs == 4000
NormalEndMs == 8000
SlowMinMs == 8000
SlowEndMs == 18000
JitterPercentMax == 20
StaggerMinBaseMs == 6000
StaggerMinStepMs == 2000
StaggerMaxBaseMs == 12000
StaggerMaxStepMs == 3000
NumberLen == 11
MinCells == 8

\* ---------------------------------------------------------------- values
JobIds == {"111", "222"}

\* Option<T>: None is the empty sequence, Some(x) the one-element sequence.
None == <<>>
Some(x) == <<x>>

Min(a, b) == IF a < b THEN a ELSE b

SeqsUpTo(S, n) == UNION {[1..m -> S] : m \in 0..n}

\* The job lists a call is given: every list of at most MaxJobs ids, repeated
\* ids included.  The engine never compares ids, so the two ids are
\* interchangeable and the lists that start with "222" are left out.
JobLists == {L \in SeqsUpTo(JobIds, MaxJobs) : L = <<>> \/ L[1] = "111"}

\* IPTUData, reduced to the two fields the callers read; the six others are
\* filled and copied the same way.
IPTUDataValues ==
  { [numero_cadastro |-> Some("cad"), nome_proprietario |-> Some("owner")] }

EmptyData == [numero_cadastro |-> None, nome_proprietario |-> None]

ErrorMessages ==
  { "Page did not load results correctly - server may be rate limiting" }

\* Result<IPTUData> of scrape_iptu_static.
Ok(d) == [ok |-> TRUE, data |-> d, err |-> ""]
Err(e) == [ok |-> FALSE, data |-> EmptyData, err |-> e]

ScrapeResults == {Ok(d) : d \in IPTUDataValues} \cup {Err(e) : e \in ErrorMessages}

NoResult == [ok |-> FALSE, data |-> EmptyData, err |-> "pending"]

\* Mutant of MakeScraperResult: the scrape's error is swallowed (the fields
\* are read with unwrap_or_default and the result is reported as a success).
MakeScraperResultSwallowsError(number, result) ==
  [ contributor_number |-> number,
    numero_cadastro    |-> IF result.ok THEN result.data.numero_cadastro ELSE None,
    nome_proprietario  |-> IF result.ok THEN result.data.nome_proprietario ELSE None,
    success            |-> TRUE,
    error              |-> None ]

\* Mutant of MakeScraperResult: the error field is filled from the Result
\* whether or not the scrape succeeded.
MakeScraperResultAlwaysError(number, result) ==
  [ contributor_number |-> number,
    numero_cadastro    |-> IF result.ok THEN result.data.numero_cadastro ELSE None,
    nome_proprietario  |-> IF result.ok THEN result.data.nome_proprietario ELSE None,
    success            |-> result.ok,
    error              |-> Some(result.err) ]

\* The ScraperResult a task builds from the job id and the scrape's Result.
MakeScraperResult(number, result) ==
  [ contributor_number |-> number,
    numero_cadastro    |-> IF result.ok THEN result.data.numero_cadastro ELSE None,
    nome_proprietario  |-> IF result.ok THEN result.data.nome_proprietario ELSE None,
    success            |-> result.ok,
    error              |-> IF result.ok THEN None ELSE Some(result.err) ]

\* ------------------------------------------------------- FailureTracker
NewTracker ==
  [ failure_count      |-> 0,
    failure_timestamps |-> <<>>,
    last_cooldown      |-> None,
    cooldown_active    |-> FALSE ]

\* failure_timestamps.retain(|&ts| now - ts < 600)
Retain(timestamps, t) ==
  SelectSeq(timestamps, LAMBDA ts : t - ts < FailureWindowSecs)

\* should_cooldown: the tracker it leaves (pruned), and the value it returns.
Pruned(tr, t) ==
  [tr EXCEPT !.failure_timestamps = Retain(@, t)]

\* Mutant of ShouldCooldown: the cooldown waits for one more failure.
ShouldCooldownLate(tr, t) ==
  Len(Pruned(tr, t).failure_timestamps) >= CooldownThreshold + 1

\* Mutant of ShouldCooldown: the window is counted without pruning it first.
ShouldCooldownUnpruned(tr, t) ==
  Len(tr.failure_timestamps) >= CooldownThreshold

ShouldCooldown(tr, t) ==
  Len(Pruned(tr, t).failure_timestamps) >= CooldownThreshold

RecordFailure(tr, t) ==
  [tr EXCEPT !.failure_timestamps = Append(@, t),
             !.failure_count = @ + 1]

\* Mutant of RecordSuccess: the reset also flips the cooldown flag.
RecordSuccessFlipsFlag(tr) ==
  [tr EXCEPT !.failure_count = 0,
             !.failure_timestamps = <<>>,
             !.cooldown_active = ~@,
             !.last_cooldown = None]

\* Mutant of RecordSuccess: only the counter is reset, the window is kept.
RecordSuccessKeepsWindow(tr) ==
  [tr EXCEPT !.failure_count = 0]

RecordSuccess(tr) ==
  [tr EXCEPT !.failure_count = 0,
             !.failure_timestamps = <<>>,
             !.cooldown_active = FALSE,
             !.last_cooldown = None]

\* apply_cooldown_if_needed up to its first sleep (or its return when the
\* check is false).
CooldownBegin(tr, t) ==
  IF ShouldCooldown(tr, t)
    THEN [Pruned(tr, t) EXCEPT !.cooldown_active = TRUE,
                               !.last_cooldown = Some(t)]
    ELSE Pruned(tr, t)

\* Mutant of CooldownFinish: the window is cleared, the flag stays raised.
CooldownFinishLeavesActive(tr) ==
  [tr EXCEPT !.failure_timestamps = <<>>]

\* Mutant of CooldownFinish: the cooldown resets the failure counter too.
CooldownFinishResetsCount(tr) ==
  [tr EXCEPT !.failure_timestamps = <<>>,
             !.failure_count = 0,
             !.cooldown_active = FALSE]

\* Mutant of CooldownFinish: the flag is lowered, the window is not cleared.
CooldownFinishKeepsWindow(tr) ==
  [tr EXCEPT !.cooldown_active = FALSE]

\* apply_cooldown_if_needed after its last sleep.
CooldownFinish(tr) ==
  [tr EXCEPT !.failure_timestamps = <<>>,
             !.cooldown_active = FALSE]

\* ------------------------------------------------ orchestrator helpers
\* Mutant of ChunksNext: the chunk size is off by one (chunks(k + 1)).
ChunksNextOffByOne(rest, k) ==
  [ chunk |-> SubSeq(rest, 1, Min(k + 1, Len(rest))),
    rest  |-> SubSeq(rest, Min(k + 1, Len(rest)) + 1, Len(rest)) ]

\* jobs.chunks(max_concurrent): the slice iterator's next() yields the first
\* min(k, len) elements of what is left and keeps the rest.
ChunksNext(rest, k) ==
  [ chunk |-> SubSeq(rest, 1, Min(k, Len(rest))),
    rest  |-> SubSeq(rest, Min(k, Len(rest)) + 1, Len(rest)) ]

\* Mutant of JoinAllReady: the wait ends with the first task that resolves
\* (a select instead of a join).
JoinAnyReady(st, lo, n) == \E i \in 1..n : st[lo + i] = "done"

\* join_all(tasks).await resolves once every task of the chunk has resolved.
\* st is the per-position task state, lo+1..lo+n the chunk's positions.
JoinAllReady(st, lo, n) == \A i \in 1..n : st[lo + i] = "done"

\* Mutant of ResultPosition: the outputs come in completion order (a
\* FuturesUnordered stream); order lists the positions as their tasks ended.
ResultPositionByCompletion(lo, i, order) == order[lo + i]

\* join_all yields the outputs in the order of the futures it was given:
\* the i-th result processed is the one of slot i (position lo + i).
ResultPosition(lo, i, order) == lo + i

\* Mutant of NextCompleted: the counter is not advanced before the callback.
NextCompletedStale(c) == c

\* completed += 1
NextCompleted(c) == c + 1

\* Mutant of PushResult: the result is put in front of the list.
PushResultFront(rs, r) == <<r>> \o rs

\* Mutant of PushResult: only successful results are kept.
PushResultOnlySuccess(rs, r) == IF r.success THEN Append(rs, r) ELSE rs

\* results.push(scraper_result)
PushResult(rs, r) == Append(rs, r)

\* Mutant of DriverOfSlot: every task is handed the driver of pool slot 0.
DriverOfSlotShared(i) == 0

\* The task at index i of a chunk clones driver_pool[i] (line 341).
DriverOfSlot(i) == i

\* Mutant of TrackerGuard: the tracker is reached without the lock.
TrackerGuardBypassed(held) == TRUE

\* The tracker lives in Arc<Mutex<FailureTracker>>: its methods are called
\* on the guard that lock().await returned (lines 333-334, 414-421).
TrackerGuard(held) == held

\* Mutant of ChunkDelayDue: a pause follows every full chunk.
ChunkDelayDueAfterFullChunk(len, k, done, n) == len = k

\* if chunk.len() == self.config.max_concurrent && completed < total
ChunkDelayDue(len, k, done, n) == len = k /\ done < n

\* Mutant of CooldownIterations: the loop runs one step short (0..9).
CooldownIterationsShort == 10 - 1

\* for i in 0..10
CooldownIterations == 10

\* A not yet produced task output.
Pending ==
  [ contributor_number |-> "",
    numero_cadastro    |-> None,
    nome_proprietario  |-> None,
    success            |-> FALSE,
    error              |-> None ]

ChunkDelays == {ChunkDelayMinSecs, ChunkDelayMaxSecs}

TickSteps == {FailureWindowSecs - 1, FailureWindowSecs}

\* ------------------------------------------------- delays (scraper)
DelayKinds == {"Quick", "Normal", "Slow"}

\* delay_ms: rng.gen_range(a..b), b excluded (lines 21-25).
BaseDelays(kind) ==
  IF kind = "Quick" THEN QuickMinMs..(QuickEndMs - 1)
  ELSE IF kind = "Normal" THEN NormalMinMs..(NormalEndMs - 1)
  ELSE SlowMinMs..(SlowEndMs - 1)

\* rng.gen_range(-20..=20)
JitterPercents == (0 - JitterPercentMax)..JitterPercentMax

\* The jitter values j for which the f64 value of 1.0 + j/100.0 lies below
\* (100 + j)/100: there the f64 product of an exactly representable result
\* can fall just short of it, and `as u64` then truncates to one less.
JitterRoundedDown ==
  {-17, -16, -15, -14, -13, -7, -6, -5, -4, -3, -2, -1,
   13, 15, 16, 17, 18, 19, 20}

\* Mutant of FinalDelays: the jitter is applied twice.
FinalDelaysDoubleJitter(delay_ms, j) ==
  {(delay_ms * (100 + j) * (100 + j)) \div 10000}

\* final_delay = (delay_ms as f64 * (1.0 + jitter_percent)) as u64: the
\* product truncated, with both outcomes kept where the f64 rounding of the
\* factor decides between them (lines 28-29).
FinalDelays(delay_ms, j) ==
  LET exact == delay_ms * (100 + j)
  IN  IF exact % 100 = 0 /\ j \in JitterRoundedDown
        THEN {exact \div 100, (exact \div 100) - 1}
        ELSE {exact \div 100}

\* Mutant of StaggerMin: the lower end shrinks with the slot index.
StaggerMinShrinking(i) == StaggerMinBaseMs - i * StaggerMinStepMs

\* let min = 6000 + (i as u64 * 2000)
StaggerMin(i) == StaggerMinBaseMs + i * StaggerMinStepMs

\* let max = 12000 + (i as u64 * 3000)
StaggerMax(i) == StaggerMaxBaseMs + i * StaggerMaxStepMs

\* The two ends of the range stand for the draw rng.gen_range(min..=max).
StaggerEnds == {"min", "max"}

\* base_delay of slot i: 0 for slot 0, else the draw (lines 349-358).
StaggerDraw(i, end) ==
  IF i = 0 THEN 0
  ELSE IF end = "min" THEN StaggerMin(i) ELSE StaggerMax(i)

\* ------------------------------------- DiretrixScraper: search page
\* The five navigation strategies of ensure_on_search_page, in code order
\* (diretrix_scraper/mod.rs lines 230, 250, 263, 271, 289).
StrategyNames ==
  << "breadcrumb", "menu_link", "direct_href", "span", "consultas_menu" >>

\* Mutant of MaxAttempts: the loop allows a fifth attempt.
MaxAttemptsFive == 4 + 1

\* Mutant of MaxAttempts: the loop gives up after three attempts.
MaxAttemptsThree == 4 - 1

\* for attempt in 1..=4
MaxAttempts == 4

\* The check at the top of an attempt: the URL holds /IPTU/PorEndereco and
\* the txtProcurar field is found, in the iframe or the main frame
\* (lines 192-206).
PreCheckHit(url_ok, field) == url_ok /\ field

\* Mutant of AfterPreCheck: the attempt navigates whatever the check found.
AfterPreCheckNavigates(hit) == "goto"

\* return Ok(()) on a hit (lines 199, 204), else fall through to goto.
AfterPreCheck(hit) == IF hit THEN "return" ELSE "goto"

\* Mutant of StrategyTried: a strategy runs even after an earlier one
\* navigated.
StrategyTriedAlways(s, navigated) == TRUE

\* Strategy 1 is unconditional, strategies 2..5 sit under `if !navigated`
\* (lines 239, 250, 263, 271, 289).
StrategyTried(s, navigated) == s = 1 \/ ~navigated

\* navigated = true: strategy 3 has one click, the others need their first
\* element activated and then the 'Por Endereco' link (lines 239-303).
StrategyNavigates(s, first, second) == IF s = 3 THEN first ELSE first /\ second

\* Mutant of AfterSoftCheck: a 404 page is handed to the target check.
AfterSoftCheckIgnores(soft) == "postcheck"

\* The page source holds a 404 signature: back and continue (lines 316-330);
\* otherwise the target check follows (line 333).
AfterSoftCheck(soft) == IF soft THEN "back" ELSE "postcheck"

\* Outcomes of a fallible browser command (the `?` operators).
PreCheckErrs == {"none", "enter_frame", "enter_default_frame"}
SettleErrs == {"none", "wait_for_page_ready", "enter_default_frame"}
PostCheckErrs ==
  {"none", "enter_frame", "enter_default_frame", "retry_default_frame"}

\* A `?` returned the error of a browser command.
Fail(n) == [n EXCEPT !.pc = "done", !.result = "Error"]

\* return Ok(())
Succeed(n) == [n EXCEPT !.pc = "done", !.result = "Ok"]

\* The for loop steps to its next attempt, or ends and bail! runs (line 363).
NextAttempt(n) ==
  IF n.attempt < MaxAttempts
    THEN [n EXCEPT !.attempt = @ + 1, !.pc = "precheck",
                   !.strategy = 1, !.navigated = FALSE]
    ELSE [n EXCEPT !.pc = "done", !.result = "Exhausted"]

\* ------------------------------------------------- queue mode, operators
\* The rows of the job lists.  iptus_list_priority holds PriorityIds,
\* iptus_list the others; a contributor number is in one list only.
QueueIds == 1..MaxQueueJobs
PriorityIds == {id \in QueueIds : id = 1}

\* The status column: null (pending), p (processing), s, e.
Statuses == {"null", "p", "s", "e"}

\* What a request can come to: the server applies it and answers 2xx
\* ("ok"), the server answers another status and applies nothing
\* ("rejected"), or send() itself fails ("error").
Responses == {"ok", "rejected", "error"}

\* What a scrape gives process_block: a success with nome_proprietario, a
\* success without it, or a failure.
ScrapeOutcomes == {"owner", "no_owner", "failed"}

\* User-Agent strings of ScraperEngine::new (lines 239-245, shortened), by index.
UserAgents ==
  << "Windows NT 10.0 Chrome/120.0.0.0", "Macintosh Chrome/120.0.0.0",
     "X11 Linux Chrome/120.0.0.0", "Windows NT 10.0 Chrome/119.0.0.0",
     "Macintosh Version/17.1 Safari/605.1.15" >>

UserAgentOfShifted(i) == UserAgents[((i + 1) % Len(UserAgents)) + 1]

\* user_agents[i % user_agents.len()] (line 259), for session i from 0.
UserAgentOf(i) == UserAgents[(i % Len(UserAgents)) + 1]

RECURSIVE Ascending(_)
\* order=contributor_number.asc
Ascending(S) ==
  IF S = {} THEN <<>>
  ELSE LET m == CHOOSE x \in S : \A y \in S : x <= y
       IN  <<m>> \o Ascending(S \ {m})

\* A select with status=is.null, order asc and a limit, on the given rows.
SelectPending(t, ids, limit) ==
  LET rows == Ascending({id \in ids : t[id] = "null"})
  IN  SubSeq(rows, 1, Min(limit, Len(rows)))

\* A PATCH of the status column of one row: applied only when the server
\* accepts it.  The callers do not look at the response status.
Patch(t, id, status, resp) ==
  IF resp = "ok" THEN [t EXCEPT ![id] = status] ELSE t

\* Mutant of BlockSizeOf: every block asks for BLOCK_SIZE jobs.
BlockSizeOfFull(limit, block_idx) == BLOCK_SIZE

\* std::cmp::min(BLOCK_SIZE, limit - (block_idx * BLOCK_SIZE)) (line 1465)
BlockSizeOf(limit, block_idx) == Min(BLOCK_SIZE, limit - block_idx * BLOCK_SIZE)

\* limit.div_ceil(BLOCK_SIZE) (line 1460)
TotalBlocks(limit) == (limit + BLOCK_SIZE - 1) \div BLOCK_SIZE

\* The status process_block asks for, if any, for a scrape outcome
\* (lines 1034, 1071, 1097-1103).
MarkFor(outcome) ==
  CASE outcome = "owner"    -> "s"
    [] outcome = "no_owner" -> "none"
    [] outcome = "failed"   -> "e"

\* Mutant of UploadDue: every outcome whose row does not exist is uploaded.
UploadDueForAll(outcome, already_exists) == ~already_exists

\* Whether process_block calls upload_results for an outcome: only in the
\* branch of result.success, and there only when check_existing_iptu did
\* not find the row (main.rs lines 1034-1051).
UploadDue(outcome, already_exists) == outcome # "failed" /\ ~already_exists

SessionStartIgnored(ok) == FALSE

\* WebDriver::new(...).await? (scraper/mod.rs line 265): the error of a
\* session that does not start is returned from new.
SessionStartFailed(ok) == ~ok

ShutdownStopsOnError(ok) == ~ok

\* let _ = driver.quit().await (scraper/mod.rs line 746): the result of a
\* quit is dropped, the loop goes on whatever it is.
ShutdownStops(ok) == FALSE

\* claim_jobs returns Ok once the loop has sent a PATCH for every id; the
\* `?` returns early only on a send() error (lines 176-189).
ClaimReturnsOk(sent, n) == sent = n

\* ------------------------------------------------ one scrape, operators
\* Strings that the code takes apart are sequences of one-character
\* strings: "7" stands for a digit, "x" for a character that is not one.
Digit == "7"
Letter == "x"

\* ddd.ddd.ddd-d..., the way the contributor numbers are written.
Dotted(body) ==
  LET part(a, b) == SubSeq(body, a, Min(b, Len(body)))
  IN  part(1, 3) \o <<".">> \o part(4, 6) \o <<".">> \o part(7, 9)
        \o <<"-">> \o part(10, Len(body))

\* The numbers a scrape is given: 9 to MaxNumberLen characters, all digits
\* or all but one, written plain, with separators, or with separators and
\* blanks around.
ContributorNumbers ==
  UNION { { body, Dotted(body), <<" ">> \o Dotted(body) \o <<" ">> } :
          body \in UNION { { [i \in 1..n |-> IF i = k THEN Letter ELSE Digit] :
                             k \in 0..n } :
                           n \in (NumberLen - 2)..MaxNumberLen } }

\* str::replace(c, "")
Remove(s, c) == SelectSeq(s, LAMBDA ch : ch # c)

RECURSIVE TrimStart(_)
TrimStart(s) ==
  IF s # <<>> /\ Head(s) = " " THEN TrimStart(Tail(s)) ELSE s

RECURSIVE TrimEnd(_)
TrimEnd(s) ==
  IF s # <<>> /\ s[Len(s)] = " " THEN TrimEnd(SubSeq(s, 1, Len(s) - 1)) ELSE s

\* str::trim
Trim(s) == TrimEnd(TrimStart(s))

\* contributor_number.replace(".", "").replace("-", "").trim()
\* (lines 547-551)
CleanNumber(number) == Trim(Remove(Remove(number, "."), "-"))

\* if parts.len() < 11 { bail!(...) } (lines 552-554)
NumberRejected(parts) == Len(parts) < NumberLen

\* &parts[0..3], &parts[3..6], &parts[6..10], &parts[10..11]
\* (lines 569, 575, 581, 587)
FormFields(parts) ==
  << SubSeq(parts, 1, 3), SubSeq(parts, 4, 6), SubSeq(parts, 7, 10),
     SubSeq(parts, 11, 11) >>

\* An element of the results page: absent, or what its value property, its
\* text and its value attribute give (None: an Err or no value).
Absent == [present |-> FALSE, prop |-> None, text |-> None, attr |-> None]
Elements ==
  {Absent} \cup
  [ present : {TRUE},
    prop : {None, Some(""), Some("v")},
    text : {None, Some(""), Some("t")},
    attr : {None, Some(""), Some("a")} ]

\* The results page, reduced to the two elements extract_data_static looks
\* for first; these are the two fields of IPTUData kept here.
Pages == [txtNumIPTU : Elements, txtProprietarioNome : Elements]

\* get_element_value (lines 641-658)
GetElementValue(elem) ==
  IF elem.prop # None /\ elem.prop[1] # "" THEN elem.prop
  ELSE IF elem.text # None /\ elem.text[1] # "" THEN elem.text
  ELSE IF elem.attr # None /\ elem.attr[1] # "" THEN elem.attr
  ELSE None

\* if let Ok(elem) = driver.find(...) { data.f = get_element_value(&elem) }
FieldOf(elem) == IF elem.present THEN GetElementValue(elem) ELSE None

ExtractDataStaticEitherMissing(page) ==
  IF ~page.txtNumIPTU.present \/ ~page.txtProprietarioNome.present
    THEN Err("Page did not load results correctly - server may be rate limiting")
    ELSE Ok([numero_cadastro   |-> FieldOf(page.txtNumIPTU),
             nome_proprietario |-> FieldOf(page.txtProprietarioNome)])

\* extract_data_static (lines 633-741)
ExtractDataStatic(page) ==
  IF ~page.txtNumIPTU.present /\ ~page.txtProprietarioNome.present
    THEN Err("Page did not load results correctly - server may be rate limiting")
    ELSE Ok([numero_cadastro   |-> FieldOf(page.txtNumIPTU),
             nome_proprietario |-> FieldOf(page.txtProprietarioNome)])

\* The style attribute of #msgtab, in pieces.
StylePieces == {"display:", "none", " ", "block"}
Styles == SeqsUpTo(StylePieces, MaxStyleLen)

\* display_style.contains("display:none")
ContainsDisplayNone(style) ==
  \E i \in 1..(Len(style) - 1) : style[i] = "display:" /\ style[i + 1] = "none"

NoMsgTab == [present |-> FALSE, style |-> <<>>]

\* The page parse_property_table is given: #msgtab (absent, or its style;
\* no style attribute reads as "") and the number of cells of each row of
\* #Relatorio.
HtmlPages ==
  [ msgtab : {NoMsgTab} \cup [present : {TRUE}, style : Styles],
    rows   : SeqsUpTo({MinCells - 1, MinCells}, MaxRows) ]

\* parse_property_table (diretrix_scraper/mod.rs lines 574-639): the rows it
\* returns, by their index in the table.
ParsePropertyTableResult(html) ==
  IF html.msgtab.present /\ ~ContainsDisplayNone(html.msgtab.style)
    THEN <<>>
    ELSE SelectSeq([i \in DOMAIN html.rows |-> i],
                   LAMBDA i : ~(html.rows[i] < MinCells))

\* ------------------------------------------------------------ the state
VARIABLES
  max_concurrent,   \* config.max_concurrent (= driver_pool.len())
  tracker,          \* failure_tracker (behind the mutex)
  lock_held,        \* the tracker mutex is held by the orchestrator
  now,              \* Unix clock, seconds
  pc,               \* where process_batch_with_callback stands
  jobs, total, completed, results,
  remaining,        \* what jobs.chunks() has not yielded yet
  chunk,            \* the chunk being processed
  chunk_base,       \* number of jobs in the chunks before it
  job_state,        \* per job position: new / stagger / running / done
  task_out,         \* per job position: the task's ScraperResult
  task_driver,      \* per job position: the pool index of its task's driver
  chunk_pos,        \* index in chunk_results of the result being processed
  cur, cur_pos,     \* that result, and its job position
  cooldown_i,       \* loop counter of apply_cooldown_if_needed
  cooldown_ret,     \* where the cooldown was called from
  callbacks,        \* the calls of the callback so far
  hist,             \* history kept for the properties (never read by the code)
  nav,              \* ensure_on_search_page: position, attempt, navigated
  nav_hist,         \* history of that call, kept for the properties
  wait_sample,      \* DelayPattern::wait: kind, delay_ms, jitter, final_delay
  stagger_delays,   \* base_delay of the slots of a chunk, slot 0 first
  run,              \* Commands::Process in queue mode: position and locals
  table,            \* status column of the rows of the two job lists
  run_hist,         \* history of that run, kept for the properties
  scrape,           \* scrape_iptu_static of one job: position and effects
  parsed            \* parse_property_table: the page and what it returned

vars ==
  << max_concurrent, tracker, lock_held, now, pc, jobs, total, completed,
     results, remaining, chunk, chunk_base, job_state, task_out, task_driver,
     chunk_pos, cur, cur_pos, cooldown_i, cooldown_ret, callbacks, hist,
     nav, nav_hist, wait_sample, stagger_delays, run, table, run_hist,
     scrape, parsed >>

\* The state of process_batch_with_callback and of its engine.
orch_vars ==
  << max_concurrent, tracker, lock_held, now, pc, jobs, total, completed,
     results, remaining, chunk, chunk_base, job_state, task_out, task_driver,
     chunk_pos, cur, cur_pos, cooldown_i, cooldown_ret, callbacks, hist >>

\* The state of DiretrixScraper::ensure_on_search_page.
nav_vars == << nav, nav_hist >>

\* The delays drawn by DelayPattern::wait and by the stagger of a chunk.
delay_vars == << wait_sample, stagger_delays >>

\* The queue-mode run of main and the job lists it works on.
queue_vars == << run, table, run_hist >>

\* One call of scrape_iptu_static and one of parse_property_table.
scrape_vars == << scrape, parsed >>

engine_vars == << max_concurrent >>

batch_vars ==
  << jobs, total, completed, results, remaining, chunk, chunk_base,
     job_state, task_out, task_driver, chunk_pos, cur, cur_pos, callbacks >>

InitHist ==
  [ ticks            |-> 0,
    scrape_out       |-> <<>>,    \* per position: the scrape's Result
    completion_order |-> <<>>,    \* positions in the order the tasks end
    track_log        |-> <<>>,    \* positions in the order the tracker saw them
    fail_positions   |-> {},      \* positions record_failure was called for
    fail_hist        |-> <<>>,    \* failure times since the last clear, unpruned
    chk              |-> [valid |-> FALSE, result |-> FALSE, recent |-> 0],
    last_op          |-> "none",  \* last tracker update: success / failure
    before_success   |-> 0,       \* failure_count a success found
    prev_fail_at     |-> -1,      \* time of the latest record_failure
    success_since    |-> FALSE,   \* a success was recorded after it
    last_fail        |-> [valid |-> FALSE, within |-> FALSE,
                          consecutive |-> FALSE, triggered |-> FALSE],
    cd_start         |-> -1,      \* clock when the latest cooldown began
    cd_launches      |-> 0,       \* chunks launched before it began
    cd_slept         |-> 0,       \* seconds of sleep it asked for
    cd_steps         |-> 0,
    cd_done          |-> 0,       \* cooldowns completed
    cd_exit          |-> [valid |-> FALSE, window |-> 0, active |-> FALSE],
    apply            |-> [valid |-> FALSE, triggered |-> FALSE, at |-> 0],
                                  \* the apply_cooldown_if_needed call, when it
                                  \* is the latest tracker operation
    launches         |-> 0,
    launched_at      |-> -1,
    chunk_log        |-> <<>>,    \* the chunks yielded so far
    pauses           |-> 0,       \* inter-chunk pauses taken
    guards           |-> 0,       \* live guards of the tracker mutex
    calls            |-> 0,       \* calls of process_batch_with_callback
    entry            |-> NewTracker,  \* the engine's tracker when the
                                  \* latest call was entered
    unguarded        |-> FALSE ]  \* a tracker method ran without the guard

InitNav ==
  [pc |-> "idle", attempt |-> 0, strategy |-> 1, navigated |-> FALSE,
   result |-> "none"]

InitNavHist ==
  [ gotos       |-> 0,        \* driver.goto calls
    backs       |-> 0,        \* driver.back calls
    tried       |-> 0,        \* strategies invoked, all attempts
    invoked     |-> <<>>,     \* strategies invoked in this attempt
    nav_by      |-> "none",   \* the strategy that set navigated
    outcomes    |-> <<>>,     \* per finished attempt: "soft" or "miss"
    first_check |-> "none",   \* what the first check of the call found
    pre_checks  |-> 0,
    soft_checks |-> 0,
    post_checks |-> 0,
    last        |-> "none",   \* what the latest step observed
    last_attempt |-> 0,       \* the attempt it belonged to
    last_back   |-> FALSE ]   \* whether it navigated back

NoSample == [kind |-> "none", delay_ms |-> 0, jitter |-> 0, final_delay |-> 0]

\* scrape_iptu_static before it is called.
InitScrape ==
  [ pc        |-> "idle",
    number    |-> <<>>,      \* contributor_number
    typed     |-> <<>>,      \* what send_keys typed, field by field
    submitted |-> FALSE,     \* the click script was executed
    extracted |-> FALSE,     \* extract_data_static was called
    page      |-> [txtNumIPTU |-> Absent, txtProprietarioNome |-> Absent],
                             \* the page it was given
    result    |-> NoResult,  \* Result<IPTUData> of scrape_iptu_static
    outcome   |-> Pending ]  \* the ScraperResult the task builds from it

\* parse_property_table before it is called.
NoParse ==
  [valid |-> FALSE, html |-> [msgtab |-> NoMsgTab, rows |-> <<>>],
   records |-> <<>>]

\* Commands::Process in queue mode, before it has run.
InitRun ==
  [ pc              |-> "start",
    limit           |-> 0,
    concurrent      |-> 0,      \* config.max_concurrent
    driver_pool     |-> <<>>,   \* per session: its User-Agent string
    block_idx       |-> 0,
    block           |-> <<>>,   \* contributor_numbers of the block
    from_priority   |-> FALSE,
    sent            |-> 0,      \* PATCHes claim_jobs has sent
    job_results     |-> <<>>,   \* scrape outcomes of the block, in order
    item            |-> 0,      \* results process_block has handled
    total_processed |-> 0,
    total_success   |-> 0,
    total_error     |-> 0 ]

\* Every row of both lists is pending.
InitTable == [id \in QueueIds |-> "null"]

InitRunHist ==
  [ abort      |-> "none",   \* which call's error ended main
    created    |-> 0,        \* sessions WebDriver::new returned
    quits      |-> 0,        \* driver.quit() calls
    quit_err_at |-> 0,       \* the first of them that returned Err
    session_err |-> FALSE,   \* a WebDriver::new returned Err
    scraped    |-> 0,        \* scrapes started, all blocks
    outcome    |-> [id \in QueueIds |-> "none"],  \* latest scrape outcome
    uploads    |-> {},       \* outcomes upload_results was called for
    progress   |-> <<>>,     \* arguments of update_batch_progress calls
    pauses     |-> 0 ]

Init ==
  /\ scrape = InitScrape
  /\ parsed = NoParse
  /\ run = InitRun
  /\ table = InitTable
  /\ run_hist = InitRunHist
  /\ nav = InitNav
  /\ nav_hist = InitNavHist
  /\ wait_sample = NoSample
  /\ stagger_delays = <<>>
  /\ max_concurrent \in 1..MaxPool
  /\ tracker = NewTracker
  /\ lock_held = FALSE
  /\ now = 0
  /\ pc = "idle"
  /\ jobs = <<>>
  /\ total = 0
  /\ completed = 0
  /\ results = <<>>
  /\ remaining = <<>>
  /\ chunk = <<>>
  /\ chunk_base = 0
  /\ job_state = <<>>
  /\ task_out = <<>>
  /\ task_driver = <<>>
  /\ chunk_pos = 1
  /\ cur = Pending
  /\ cur_pos = 0
  /\ cooldown_i = 0
  /\ cooldown_ret = "launch"
  /\ callbacks = <<>>
  /\ hist = InitHist

\* Number of recorded failures younger than the window at time t.
RecentCount(fh, t) ==
  Cardinality({i \in DOMAIN fh : t - fh[i] < FailureWindowSecs})

\* History of one call of apply_cooldown_if_needed on tracker tr at time t.
ApplyHist(h, tr, t) ==
  IF ShouldCooldown(tr, t)
    THEN [h EXCEPT !.cd_start = t, !.cd_launches = h.launches,
                   !.cd_slept = 0, !.cd_steps = 0,
                   !.apply = [valid |-> TRUE, triggered |-> TRUE, at |-> t]]
    ELSE [h EXCEPT !.apply = [valid |-> TRUE, triggered |-> FALSE, at |-> t]]

CheckHist(h, tr, t, fh) ==
  [h EXCEPT !.chk = [valid  |-> TRUE,
                     result |-> ShouldCooldown(tr, t),
                     recent |-> RecentCount(fh, t)]]

\* History of one tracker operation: whether the caller held the guard,
\* and whether the guard is dropped when the operation returns.
GuardHist(h, held, dropped) ==
  [h EXCEPT !.unguarded = @ \/ ~held,
            !.guards = IF dropped /\ held THEN @ - 1 ELSE @]

\* ----------------------------------------------------------- the actions
\* process_batch_with_callback(jobs, callback) is entered: lines 311-313.
ProcessBatch(L) ==
  /\ pc = "idle"
  /\ jobs' = L
  /\ total' = Len(L)
  /\ completed' = 0
  /\ results' = <<>>
  /\ remaining' = L
  /\ chunk' = <<>>
  /\ chunk_base' = 0
  /\ job_state' = [p \in 1..Len(L) |-> "new"]
  /\ task_out' = [p \in 1..Len(L) |-> Pending]
  /\ task_driver' = [p \in 1..Len(L) |-> None]
  /\ chunk_pos' = 1
  /\ cur' = Pending
  /\ cur_pos' = 0
  /\ callbacks' = <<>>
  /\ hist' = [hist EXCEPT !.scrape_out = [p \in 1..Len(L) |-> NoResult],
                          !.calls = @ + 1,
                          !.entry = tracker]
  /\ pc' = "check"
  /\ UNCHANGED << engine_vars, nav_vars, delay_vars, queue_vars, scrape_vars, tracker, lock_held, now, cooldown_i, cooldown_ret >>

\* failure_tracker.lock().await returns the guard: before the cooldown check
\* of a chunk (line 333) and before a result is recorded (line 414).
LockTracker ==
  /\ \/ pc = "check" /\ remaining # <<>>
     \/ pc = "track" /\ chunk_pos <= Len(chunk)
  /\ ~lock_held
  /\ lock_held' = TRUE
  /\ hist' = [hist EXCEPT !.guards = @ + 1]
  /\ UNCHANGED << engine_vars, nav_vars, delay_vars, queue_vars, scrape_vars, tracker, now, pc, batch_vars, cooldown_i,
                  cooldown_ret >>

\* Top of the for loop: the next chunk is taken and, with the tracker
\* locked, apply_cooldown_if_needed is called (lines 330-335).
ChunkCheck ==
  /\ pc = "check"
  /\ remaining # <<>>
  /\ TrackerGuard(lock_held)
  /\ chunk' = ChunksNext(remaining, max_concurrent).chunk
  /\ remaining' = ChunksNext(remaining, max_concurrent).rest
  /\ chunk_base' = chunk_base + Len(chunk)
  /\ chunk_pos' = 1
  /\ tracker' = CooldownBegin(tracker, now)
  /\ hist' = [ApplyHist(CheckHist(GuardHist(hist, lock_held,
                                             ~ShouldCooldown(tracker, now)),
                                   tracker, now, hist.fail_hist),
                         tracker, now)
                EXCEPT !.chunk_log = Append(@, chunk')]
  /\ IF ShouldCooldown(tracker, now)
       THEN /\ pc' = "cooldown"
            /\ lock_held' = TRUE
            /\ cooldown_i' = 0
            /\ cooldown_ret' = "launch"
       ELSE /\ pc' = "launch"
            /\ lock_held' = FALSE
            /\ UNCHANGED << cooldown_i, cooldown_ret >>
  /\ UNCHANGED << engine_vars, nav_vars, delay_vars, queue_vars, scrape_vars, task_driver, now, jobs, total, completed, results,
                  job_state, task_out, cur, cur_pos, callbacks >>

\* The chunk iterator is exhausted: results is returned (line 440).
Return ==
  /\ pc = "check"
  /\ remaining = <<>>
  /\ pc' = "done"
  /\ UNCHANGED << engine_vars, nav_vars, delay_vars, queue_vars, scrape_vars, tracker, lock_held, now, batch_vars,
                  cooldown_i, cooldown_ret, hist >>

\* One sleep(120 s) of the cooldown loop (lines 156-162).
CooldownSleep ==
  /\ pc = "cooldown"
  /\ cooldown_i < CooldownIterations
  /\ cooldown_i' = cooldown_i + 1
  /\ now' = now + CooldownSleepSecs
  /\ hist' = [hist EXCEPT !.cd_slept = @ + CooldownSleepSecs,
                          !.cd_steps = @ + 1]
  /\ UNCHANGED << engine_vars, nav_vars, delay_vars, queue_vars, scrape_vars, tracker, lock_held, pc, batch_vars, cooldown_ret >>

\* The loop is over: the window is cleared, apply_cooldown_if_needed returns
\* and the guard is dropped (lines 164-168, then 335 or 423).
CooldownEnd ==
  /\ pc = "cooldown"
  /\ cooldown_i >= CooldownIterations
  /\ tracker' = CooldownFinish(tracker)
  /\ lock_held' = FALSE
  /\ pc' = cooldown_ret
  /\ hist' = [GuardHist(hist, lock_held, TRUE)
                EXCEPT !.cd_done = @ + 1,
                       !.fail_hist = <<>>,
                       !.cd_exit = [valid  |-> TRUE,
                                    window |-> Len(tracker'.failure_timestamps),
                                    active |-> tracker'.cooldown_active]]
  /\ UNCHANGED << engine_vars, nav_vars, delay_vars, queue_vars, scrape_vars, now, batch_vars, cooldown_i, cooldown_ret >>

\* The chunk's tasks are created and join_all starts polling them: slot 0
\* has no stagger delay, the later slots sleep first (lines 337-407).
Launch ==
  /\ pc = "launch"
  /\ job_state' = [p \in DOMAIN job_state |->
                     IF p = chunk_base + 1 THEN "running"
                     ELSE IF p \in (chunk_base + 2)..(chunk_base + Len(chunk))
                            THEN "stagger"
                            ELSE job_state[p]]
  /\ task_driver' = [p \in DOMAIN task_driver |->
                       IF p \in (chunk_base + 1)..(chunk_base + Len(chunk))
                         THEN Some(DriverOfSlot(p - chunk_base - 1))
                         ELSE task_driver[p]]
  /\ pc' = "join"
  /\ hist' = [hist EXCEPT !.launches = @ + 1, !.launched_at = now]
  /\ UNCHANGED << engine_vars, nav_vars, delay_vars, queue_vars, scrape_vars, tracker, lock_held, now, jobs, total, completed,
                  results, remaining, chunk, chunk_base, task_out, chunk_pos,
                  cur, cur_pos, cooldown_i, cooldown_ret, callbacks >>

\* A task's stagger sleep ends and it starts scraping (lines 363-375).
StartJob(p) ==
  /\ pc = "join"
  /\ p \in (chunk_base + 1)..(chunk_base + Len(chunk))
  /\ job_state[p] = "stagger"
  /\ job_state' = [job_state EXCEPT ![p] = "running"]
  /\ UNCHANGED << engine_vars, nav_vars, delay_vars, queue_vars, scrape_vars, task_driver, tracker, lock_held, now, pc, jobs, total,
                  completed, results, remaining, chunk, chunk_base, task_out,
                  chunk_pos, cur, cur_pos, cooldown_i, cooldown_ret, callbacks,
                  hist >>

\* scrape_iptu_static returns r and the task wraps it (lines 375-400).
FinishJob(p, r) ==
  /\ pc = "join"
  /\ p \in (chunk_base + 1)..(chunk_base + Len(chunk))
  /\ job_state[p] = "running"
  /\ job_state' = [job_state EXCEPT ![p] = "done"]
  /\ task_out' = [task_out EXCEPT ![p] = MakeScraperResult(chunk[p - chunk_base], r)]
  /\ hist' = [hist EXCEPT !.scrape_out[p] = r,
                          !.completion_order = Append(@, p)]
  /\ UNCHANGED << engine_vars, nav_vars, delay_vars, queue_vars, scrape_vars, task_driver, tracker, lock_held, now, pc, jobs, total,
                  completed, results, remaining, chunk, chunk_base, chunk_pos,
                  cur, cur_pos, cooldown_i, cooldown_ret, callbacks >>

\* join_all resolves (line 407).
Joined ==
  /\ pc = "join"
  /\ JoinAllReady(job_state, chunk_base, Len(chunk))
  /\ pc' = "track"
  /\ chunk_pos' = 1
  /\ UNCHANGED << engine_vars, nav_vars, delay_vars, queue_vars, scrape_vars, task_driver, tracker, lock_held, now, jobs, total, completed,
                  results, remaining, chunk, chunk_base, job_state, task_out,
                  cur, cur_pos, cooldown_i, cooldown_ret, callbacks, hist >>

\* One result of the chunk: completed is counted, the locked tracker is
\* updated, and on a failure apply_cooldown_if_needed is called with the
\* lock held; the guard is dropped when that returns (lines 410-423).
TrackResult ==
  /\ pc = "track"
  /\ chunk_pos <= Len(chunk)
  /\ TrackerGuard(lock_held)
  /\ LET p  == ResultPosition(chunk_base, chunk_pos, hist.completion_order)
         r  == task_out[p]
         t1 == RecordFailure(tracker, now)
         h0 == [GuardHist(hist, lock_held,
                          r.success \/ ~ShouldCooldown(t1, now))
                  EXCEPT !.track_log = Append(@, p)]
     IN
       /\ completed' = NextCompleted(completed)
       /\ cur' = r
       /\ cur_pos' = p
       /\ IF r.success
            THEN /\ tracker' = RecordSuccess(tracker)
                 /\ pc' = "callback"
                 /\ lock_held' = FALSE
                 /\ UNCHANGED << cooldown_i, cooldown_ret >>
                 /\ hist' = [h0 EXCEPT !.last_op = "success",
                                       !.before_success = tracker.failure_count,
                                       !.fail_hist = <<>>,
                                       !.success_since = TRUE,
                                       !.apply.valid = FALSE]
            ELSE /\ tracker' = CooldownBegin(t1, now)
                 /\ hist' =
                      [ApplyHist(CheckHist(h0, t1, now, Append(hist.fail_hist, now)),
                                 t1, now)
                         EXCEPT !.last_op = "failure",
                                !.fail_hist = Append(@, now),
                                !.fail_positions = @ \cup {p},
                                !.last_fail =
                                   [valid       |-> TRUE,
                                    within      |-> /\ hist.prev_fail_at >= 0
                                                    /\ now - hist.prev_fail_at
                                                         < FailureWindowSecs,
                                    consecutive |-> ~hist.success_since,
                                    triggered   |-> ShouldCooldown(t1, now)],
                                !.prev_fail_at = now,
                                !.success_since = FALSE]
                 /\ IF ShouldCooldown(t1, now)
                      THEN /\ pc' = "cooldown"
                           /\ lock_held' = TRUE
                           /\ cooldown_i' = 0
                           /\ cooldown_ret' = "callback"
                      ELSE /\ pc' = "callback"
                           /\ lock_held' = FALSE
                           /\ UNCHANGED << cooldown_i, cooldown_ret >>
  /\ UNCHANGED << engine_vars, nav_vars, delay_vars, queue_vars, scrape_vars, task_driver, now, jobs, total, results, remaining, chunk,
                  chunk_base, job_state, task_out, chunk_pos, callbacks >>

\* The callback is called and the result is pushed (lines 426-428).
Callback ==
  /\ pc = "callback"
  /\ callbacks' = Append(callbacks,
                         [result    |-> cur,
                          completed |-> completed,
                          total     |-> total,
                          pos       |-> cur_pos,
                          tracked   |-> Len(hist.track_log),
                          joined    |-> \A i \in 1..Len(chunk) :
                                          job_state[chunk_base + i] = "done"])
  /\ results' = PushResult(results, cur)
  /\ chunk_pos' = chunk_pos + 1
  /\ pc' = "track"
  /\ UNCHANGED << engine_vars, nav_vars, delay_vars, queue_vars, scrape_vars, task_driver, tracker, lock_held, now, jobs, total, completed,
                  remaining, chunk, chunk_base, job_state, task_out, cur,
                  cur_pos, cooldown_i, cooldown_ret, hist >>

\* All results of the chunk are processed: the inter-chunk pause, when the
\* chunk was full and jobs are left (lines 431-437).
EndChunk ==
  /\ pc = "track"
  /\ chunk_pos > Len(chunk)
  /\ \E d \in ChunkDelays :
       IF ChunkDelayDue(Len(chunk), max_concurrent, completed, total)
         THEN /\ now' = now + d
              /\ hist' = [hist EXCEPT !.pauses = @ + 1]
         ELSE UNCHANGED << now, hist >>
  /\ pc' = "check"
  /\ UNCHANGED << engine_vars, nav_vars, delay_vars, queue_vars, scrape_vars, tracker, lock_held, batch_vars, cooldown_i,
                  cooldown_ret >>

\* Time passes while the orchestrator is suspended before a tracker read.
Tick(d) ==
  /\ \/ pc = "check" /\ remaining # <<>>
     \/ pc = "track" /\ chunk_pos <= Len(chunk)
  /\ ~lock_held
  /\ hist.ticks < MaxTicks
  /\ now' = now + d
  /\ hist' = [hist EXCEPT !.ticks = @ + 1]
  /\ UNCHANGED << engine_vars, nav_vars, delay_vars, queue_vars, scrape_vars, tracker, lock_held, pc, batch_vars, cooldown_i,
                  cooldown_ret >>

Next ==
  \/ \E L \in JobLists : ProcessBatch(L)
  \/ LockTracker
  \/ ChunkCheck
  \/ Return
  \/ CooldownSleep
  \/ CooldownEnd
  \/ Launch
  \/ \E p \in 1..MaxJobs : StartJob(p)
  \/ \E p \in 1..MaxJobs, r \in ScrapeResults : FinishJob(p, r)
  \/ Joined
  \/ TrackResult
  \/ Callback
  \/ EndChunk
  \/ \E d \in TickSteps : Tick(d)

Spec == Init /\ [][Next]_vars


\* --------------------------------------- successive calls on one engine
\* The job lists of the calls, and the time between the return of a call
\* and the next call.
CallLists ==
  {L \in SeqsUpTo(JobIds, MaxCallJobs) : L = <<>> \/ L[1] = "111"}

CallGaps == {0, FailureWindowSecs - 1, FailureWindowSecs}

\* Mutant of TrackerOfCall: every call starts on a new tracker.
TrackerOfCallFresh(engine_tracker) == NewTracker

\* The tracker a call works on: self.failure_tracker, the one made by
\* ScraperEngine::new, as the calls before left it.
TrackerOfCall(engine_tracker) == engine_tracker

\* process_batch_with_callback is called again on the same engine, gap
\* seconds after the call before returned (main.rs: one call per block).
NextCall(L, gap) ==
  /\ pc = "done"
  /\ hist.calls < MaxCalls
  /\ jobs' = L
  /\ total' = Len(L)
  /\ completed' = 0
  /\ results' = <<>>
  /\ remaining' = L
  /\ chunk' = <<>>
  /\ chunk_base' = 0
  /\ job_state' = [p \in 1..Len(L) |-> "new"]
  /\ task_out' = [p \in 1..Len(L) |-> Pending]
  /\ task_driver' = [p \in 1..Len(L) |-> None]
  /\ chunk_pos' = 1
  /\ cur' = Pending
  /\ cur_pos' = 0
  /\ callbacks' = <<>>
  /\ tracker' = TrackerOfCall(tracker)
  /\ now' = now + gap
  /\ hist' = [hist EXCEPT !.scrape_out = [p \in 1..Len(L) |-> NoResult],
                          !.completion_order = <<>>,
                          !.track_log = <<>>,
                          !.fail_positions = {},
                          !.chunk_log = <<>>,
                          !.pauses = 0,
                          !.calls = @ + 1,
                          !.entry = tracker]
  /\ pc' = "check"
  /\ UNCHANGED << engine_vars, nav_vars, delay_vars, queue_vars, scrape_vars, lock_held, cooldown_i, cooldown_ret >>

CallsNext ==
  \/ \E L \in CallLists : ProcessBatch(L)
  \/ \E L \in CallLists, gap \in CallGaps : NextCall(L, gap)
  \/ LockTracker
  \/ ChunkCheck
  \/ Return
  \/ CooldownSleep
  \/ CooldownEnd
  \/ Launch
  \/ \E p \in 1..MaxCallJobs : StartJob(p)
  \/ \E p \in 1..MaxCallJobs, r \in ScrapeResults : FinishJob(p, r)
  \/ Joined
  \/ TrackResult
  \/ Callback
  \/ EndChunk

\* The engine of the calls has the largest pool: a call is one chunk.
CallsInit == Init /\ max_concurrent = MaxPool

CallsSpec == CallsInit /\ [][CallsNext]_vars

\* One call on a short job list, with the runtime polling the orchestrator
\* whenever it can take a step: every sleep ends, the uncontended lock is
\* granted, and every scrape returns.
FairNext ==
  \/ \E L \in CallLists : ProcessBatch(L)
  \/ LockTracker
  \/ ChunkCheck
  \/ Return
  \/ CooldownSleep
  \/ CooldownEnd
  \/ Launch
  \/ \E p \in 1..MaxCallJobs : StartJob(p)
  \/ \E p \in 1..MaxCallJobs, r \in ScrapeResults : FinishJob(p, r)
  \/ Joined
  \/ TrackResult
  \/ Callback
  \/ EndChunk
  \/ \E d \in TickSteps : Tick(d)

FairSpec == Init /\ [][FairNext]_vars /\ WF_vars(FairNext)

\* ------------------------------------ ensure_on_search_page, step by step
\* The call starts: enter_default_frame, then the first attempt (188-190).
EnsureOnSearchPage(err) ==
  /\ nav.pc = "idle"
  /\ nav' = IF err THEN Fail(nav)
                   ELSE [nav EXCEPT !.pc = "precheck", !.attempt = 1]
  /\ nav_hist' = [nav_hist EXCEPT !.last = IF err THEN "error" ELSE "enter",
                                  !.last_attempt = 0,
                                  !.last_back = FALSE]
  /\ UNCHANGED << orch_vars, delay_vars, queue_vars, scrape_vars >>

\* The check at the top of an attempt (lines 192-207).  The iframe, when
\* found, is entered before the field is looked up and left after a miss.
PreCheck(url_ok, frame, field, err) ==
  /\ nav.pc = "precheck"
  /\ LET fail1 == url_ok /\ frame /\ err = "enter_frame"
         hit   == ~fail1 /\ PreCheckHit(url_ok, field)
         fail2 == url_ok /\ frame /\ ~hit /\ err = "enter_default_frame"
         seen  == IF fail1 THEN "error" ELSE IF hit THEN "hit" ELSE "miss"
     IN
       /\ nav' = IF fail1 \/ fail2 THEN Fail(nav)
                  ELSE IF AfterPreCheck(hit) = "return" THEN Succeed(nav)
                  ELSE [nav EXCEPT !.pc = "goto"]
       /\ nav_hist' =
            [nav_hist EXCEPT
               !.pre_checks = IF fail1 THEN @ ELSE @ + 1,
               !.first_check = IF @ = "none" THEN seen ELSE @,
               !.last = IF fail2 THEN "error" ELSE "pre_" \o seen,
               !.last_attempt = nav.attempt,
               !.last_back = FALSE]
  /\ UNCHANGED << orch_vars, delay_vars, queue_vars, scrape_vars >>

\* goto(base_url), wait_for_page_ready, the dashboard wait (lines 220-226).
Goto(err) ==
  /\ nav.pc = "goto"
  /\ nav' = IF err THEN Fail(nav)
                   ELSE [nav EXCEPT !.pc = "strategy", !.strategy = 1,
                                    !.navigated = FALSE]
  /\ nav_hist' = [nav_hist EXCEPT !.gotos = @ + 1,
                                  !.invoked = <<>>,
                                  !.nav_by = "none",
                                  !.last = IF err THEN "error" ELSE "goto",
                                  !.last_attempt = nav.attempt,
                                  !.last_back = FALSE]
  /\ UNCHANGED << orch_vars, delay_vars, queue_vars, scrape_vars >>

\* The next of the five strategies: skipped when an earlier one navigated,
\* else its element is activated (first) and, for the two-click
\* strategies, the 'Por Endereco' link after it (second) (lines 228-303).
TryStrategy(first, second) ==
  /\ nav.pc = "strategy"
  /\ nav.strategy <= Len(StrategyNames)
  /\ LET s     == nav.strategy
         tried == StrategyTried(s, nav.navigated)
         navs  == tried /\ StrategyNavigates(s, first, second)
     IN
       /\ nav' = [nav EXCEPT !.navigated = @ \/ navs,
                             !.strategy = s + 1,
                             !.pc = IF s = Len(StrategyNames)
                                      THEN "settle" ELSE "strategy"]
       /\ nav_hist' =
            IF tried
              THEN [nav_hist EXCEPT
                      !.tried = @ + 1,
                      !.invoked = Append(@, StrategyNames[s]),
                      !.nav_by = IF navs /\ @ = "none"
                                   THEN StrategyNames[s] ELSE @,
                      !.last = "strategy",
                      !.last_attempt = nav.attempt]
              ELSE [nav_hist EXCEPT !.last = "skip",
                                    !.last_attempt = nav.attempt]
  /\ UNCHANGED << orch_vars, delay_vars, queue_vars, scrape_vars >>

\* wait_for_page_ready, then the 404 test of the page source: on a match
\* back, enter_default_frame and continue (lines 309-330).
Settle(soft, err) ==
  /\ nav.pc = "settle"
  /\ LET fail1 == err = "wait_for_page_ready"
         back  == ~fail1 /\ AfterSoftCheck(soft) = "back"
         fail2 == back /\ err = "enter_default_frame"
     IN
       /\ nav' = IF fail1 \/ fail2 THEN Fail(nav)
                  ELSE IF back THEN NextAttempt(nav)
                  ELSE [nav EXCEPT !.pc = "postcheck"]
       /\ nav_hist' =
            IF fail1
              THEN [nav_hist EXCEPT !.last = "error",
                                    !.last_attempt = nav.attempt,
                                    !.last_back = FALSE]
              ELSE [nav_hist EXCEPT
                      !.soft_checks = @ + 1,
                      !.backs = IF back THEN @ + 1 ELSE @,
                      !.outcomes = IF soft THEN Append(@, "soft") ELSE @,
                      !.last = IF soft THEN "soft" ELSE "clean",
                      !.last_attempt = nav.attempt,
                      !.last_back = back]
  /\ UNCHANGED << orch_vars, delay_vars, queue_vars, scrape_vars >>

\* The target check after the navigation; on a miss back and
\* enter_default_frame unless this was the last attempt (lines 333-361).
PostCheck(frame, field, err) ==
  /\ nav.pc = "postcheck"
  /\ LET fail1 == frame /\ err = "enter_frame"
         hit   == ~fail1 /\ field
         fail2 == ~fail1 /\ ~hit /\ frame /\ err = "enter_default_frame"
         back  == ~fail1 /\ ~hit /\ ~fail2 /\ nav.attempt < RetryBackBelow
         fail3 == back /\ err = "retry_default_frame"
     IN
       /\ nav' = IF fail1 \/ fail2 \/ fail3 THEN Fail(nav)
                  ELSE IF hit THEN Succeed(nav)
                  ELSE NextAttempt(nav)
       /\ nav_hist' =
            [nav_hist EXCEPT
               !.post_checks = IF fail1 THEN @ ELSE @ + 1,
               !.backs = IF back THEN @ + 1 ELSE @,
               !.outcomes = IF ~fail1 /\ ~hit THEN Append(@, "miss") ELSE @,
               !.last = IF fail1 THEN "error"
                        ELSE IF hit THEN "post_hit" ELSE "miss",
               !.last_attempt = nav.attempt,
               !.last_back = back]
  /\ UNCHANGED << orch_vars, delay_vars, queue_vars, scrape_vars >>

NavNext ==
  \/ \E err \in BOOLEAN : EnsureOnSearchPage(err)
  \/ \E url_ok \in BOOLEAN, frame \in BOOLEAN, field \in BOOLEAN,
        err \in PreCheckErrs : PreCheck(url_ok, frame, field, err)
  \/ \E err \in BOOLEAN : Goto(err)
  \/ \E first \in BOOLEAN, second \in BOOLEAN : TryStrategy(first, second)
  \/ \E soft \in BOOLEAN, err \in SettleErrs : Settle(soft, err)
  \/ \E frame \in BOOLEAN, field \in BOOLEAN, err \in PostCheckErrs :
        PostCheck(frame, field, err)

NavSpec == Init /\ [][NavNext]_vars

\* Every browser command and every sleep of the call returns, so the call
\* takes its next step as long as it has one.
NavFairSpec == NavSpec /\ WF_vars(NavNext)

\* ------------------------------------------------------ delays, drawn
\* DelayPattern::wait on a pattern of the given kind draws delay_ms and the
\* jitter and sleeps final_delay milliseconds (lines 19-32).
Wait(kind) ==
  /\ wait_sample = NoSample
  /\ stagger_delays = <<>>
  /\ \E delay_ms \in BaseDelays(kind), j \in JitterPercents :
       \E final_delay \in FinalDelays(delay_ms, j) :
         wait_sample' = [kind |-> kind, delay_ms |-> delay_ms, jitter |-> j,
                         final_delay |-> final_delay]
  /\ UNCHANGED << orch_vars, nav_vars, queue_vars, scrape_vars, stagger_delays >>

\* The task loop of a chunk reaches its next slot and draws the slot's
\* base_delay (lines 339-358).
Stagger(end) ==
  /\ wait_sample = NoSample
  /\ Len(stagger_delays) < MaxSlots
  /\ stagger_delays' =
       Append(stagger_delays, StaggerDraw(Len(stagger_delays), end))
  /\ UNCHANGED << orch_vars, nav_vars, queue_vars, scrape_vars, wait_sample >>

DelayNext ==
  \/ \E kind \in DelayKinds : Wait(kind)
  \/ \E end \in StaggerEnds : Stagger(end)

\* The delays do not depend on the engine: one pool size stands for all.
DelayInit == Init /\ max_concurrent = 1

DelaySpec == DelayInit /\ [][DelayNext]_vars

\* ---------------------------------------------------- queue mode, steps
\* An error that `?` returns from main: the command ends there.
Aborted(cause) ==
  /\ run' = [run EXCEPT !.pc = "aborted"]
  /\ run_hist' = [run_hist EXCEPT !.abort = cause]
  /\ UNCHANGED table

\* Commands::Process without --file, --numbers or an address: chromedriver
\* is started and the configuration is built (main.rs lines 1152-1180).
Main(limit, concurrent, chromedriver_ok) ==
  /\ run.pc = "start"
  /\ IF chromedriver_ok
       THEN /\ run' = [run EXCEPT !.pc = "new", !.limit = limit,
                                  !.concurrent = concurrent]
            /\ UNCHANGED << table, run_hist >>
       ELSE Aborted("chromedriver")
  /\ UNCHANGED << orch_vars, nav_vars, delay_vars, scrape_vars >>

\* One turn of the loop of ScraperEngine::new (lines 248-298): the
\* capabilities of session i are built and WebDriver::new is awaited; `?`
\* returns its error.  After the last session new returns Ok(Self).
NewSession(ok) ==
  /\ run.pc = "new"
  /\ LET i == Len(run.driver_pool)
         failed == SessionStartFailed(ok)
     IN  /\ run' = IF failed
                     THEN [run EXCEPT !.pc = "aborted"]
                     ELSE [run EXCEPT
                            !.driver_pool = Append(@, UserAgentOf(i)),
                            !.pc = IF i + 1 = run.concurrent
                                     THEN "client" ELSE "new"]
         /\ run_hist' = [run_hist EXCEPT
              !.session_err = @ \/ ~ok,
              !.abort = IF failed THEN "pool" ELSE @,
              !.created = IF failed THEN @ ELSE @ + 1]
         /\ UNCHANGED table
  /\ UNCHANGED << orch_vars, nav_vars, delay_vars, scrape_vars >>

\* build_supabase_client()? (main.rs line 1343)
BuildClient(ok) ==
  /\ run.pc = "client"
  /\ IF ok
       THEN /\ run' = [run EXCEPT !.pc = "create_batch"]
            /\ UNCHANGED << table, run_hist >>
       ELSE Aborted("client")
  /\ UNCHANGED << orch_vars, nav_vars, delay_vars, scrape_vars >>

\* create_batch(limit).await? (main.rs line 1457); it bails on a status
\* that is not a success.
CreateBatch(resp) ==
  /\ run.pc = "create_batch"
  /\ IF resp = "ok"
       THEN /\ run' = [run EXCEPT !.pc = "fetch"]
            /\ UNCHANGED << table, run_hist >>
       ELSE Aborted("create_batch")
  /\ UNCHANGED << orch_vars, nav_vars, delay_vars, scrape_vars >>

\* fetch_pending_jobs(block_size).await? and what main does with the jobs
\* (main.rs lines 1462-1484): priority rows first, the other list when
\* there are none or the priority request is refused.
FetchPendingJobs(r1, r2) ==
  /\ run.pc = "fetch"
  /\ LET size == BlockSizeOf(run.limit, run.block_idx)
         priority_jobs ==
           IF r1 = "ok" THEN SelectPending(table, PriorityIds, size) ELSE <<>>
         pending_jobs ==
           IF priority_jobs # <<>> THEN priority_jobs
           ELSE SelectPending(table, QueueIds \ PriorityIds, size)
     IN  IF r1 = "error" \/ (priority_jobs = <<>> /\ r2 # "ok")
           THEN Aborted("fetch")
           ELSE /\ run' = [run EXCEPT
                     !.pc = IF pending_jobs = <<>> THEN "complete" ELSE "claim",
                     !.block = pending_jobs,
                     !.from_priority = (priority_jobs # <<>>),
                     !.sent = 0, !.job_results = <<>>, !.item = 0]
                /\ UNCHANGED << table, run_hist >>
  /\ UNCHANGED << orch_vars, nav_vars, delay_vars, scrape_vars >>

\* One turn of the loop of claim_jobs (supabase/mod.rs lines 176-187): a
\* PATCH of status "p" for the next id; only a send() error ends the loop.
ClaimJob(resp) ==
  /\ run.pc = "claim"
  /\ LET id == run.block[run.sent + 1]
     IN  IF resp = "error"
           THEN Aborted("claim")
           ELSE /\ table' = Patch(table, id, "p", resp)
                /\ run' = [run EXCEPT
                     !.sent = @ + 1,
                     !.pc = IF ClaimReturnsOk(run.sent + 1, Len(run.block))
                              THEN "process" ELSE "claim"]
                /\ UNCHANGED run_hist
  /\ UNCHANGED << orch_vars, nav_vars, delay_vars, scrape_vars >>

\* process_block hands the block to process_batch_with_callback, which
\* returns one outcome per job, in order (main.rs lines 990-1007).
ScrapeBlock(outs) ==
  /\ run.pc = "process"
  /\ Len(outs) = Len(run.block)
  /\ run' = [run EXCEPT !.pc = "results", !.job_results = outs, !.item = 0]
  /\ run_hist' = [run_hist EXCEPT
       !.scraped = @ + Len(run.block),
       !.outcome = [id \in QueueIds |->
                      IF \E i \in DOMAIN run.block : run.block[i] = id
                        THEN outs[CHOOSE i \in DOMAIN run.block :
                                    run.block[i] = id]
                        ELSE @[id]]]
  /\ UNCHANGED table
  /\ UNCHANGED << orch_vars, nav_vars, delay_vars, scrape_vars >>

\* One turn of the result loop of process_block (main.rs lines 1010-1129):
\* a success is uploaded unless the row exists (the upload's result is only
\* logged) and marked "s" when it has an owner name; a failure is marked
\* "e"; an error of a mark call is only logged.  After the last result
\* process_block returns and main adds the block to its counters
\* (lines 1517-1522).
HandleResult(already_exists, resp) ==
  /\ run.pc = "results"
  /\ LET i == run.item + 1
         id == run.block[i]
         outcome == run.job_results[i]
         last == i = Len(run.job_results)
         block_success ==
           Cardinality({k \in DOMAIN run.job_results :
                          run.job_results[k] # "failed"})
     IN  /\ table' = IF MarkFor(outcome) = "none" THEN table
                     ELSE Patch(table, id, MarkFor(outcome), resp)
         /\ run_hist' = [run_hist EXCEPT
              !.uploads = IF UploadDue(outcome, already_exists)
                            THEN @ \cup {outcome} ELSE @]
         /\ run' = [run EXCEPT
              !.item = i,
              !.pc = IF last THEN "progress" ELSE "results",
              !.total_processed =
                 IF last THEN @ + Len(run.job_results) ELSE @,
              !.total_success = IF last THEN @ + block_success ELSE @,
              !.total_error =
                 IF last THEN @ + (Len(run.job_results) - block_success)
                 ELSE @]
  /\ UNCHANGED << orch_vars, nav_vars, delay_vars, scrape_vars >>

\* update_batch_progress(...).await? and the end of the loop body
\* (main.rs lines 1524-1557): break at the limit, else the pause and the
\* next block.
UpdateBatchProgress(resp) ==
  /\ run.pc = "progress"
  /\ IF resp # "ok"
       THEN Aborted("progress")
       ELSE LET more == run.total_processed < run.limit
                         /\ run.block_idx < TotalBlocks(run.limit) - 1
            IN  /\ run' = [run EXCEPT
                     !.pc = IF more THEN "fetch" ELSE "complete",
                     !.block_idx = IF more THEN @ + 1 ELSE @]
                /\ run_hist' = [run_hist EXCEPT
                     !.progress = << run.total_processed, run.total_success,
                                     run.total_error >>,
                     !.pauses = IF more THEN @ + 1 ELSE @]
                /\ UNCHANGED table
  /\ UNCHANGED << orch_vars, nav_vars, delay_vars, scrape_vars >>

\* complete_batch(&batch_id).await? when something was processed
\* (main.rs lines 1559-1562).
CompleteBatch(resp) ==
  /\ run.pc = "complete"
  /\ IF run.total_processed > 0 /\ resp # "ok"
       THEN Aborted("complete")
       ELSE /\ run' = [run EXCEPT !.pc = "shutdown"]
            /\ UNCHANGED << table, run_hist >>
  /\ UNCHANGED << orch_vars, nav_vars, delay_vars, scrape_vars >>

\* One turn of the loop of shutdown (scraper/mod.rs lines 743-748):
\* let _ = driver.quit().await
Quit(ok) ==
  /\ run.pc = "shutdown"
  /\ run' = [run EXCEPT
       !.pc = IF ShutdownStops(ok) \/ run_hist.quits + 1 = Len(run.driver_pool)
                THEN "done" ELSE "shutdown"]
  /\ run_hist' = [run_hist EXCEPT
       !.quits = @ + 1,
       !.quit_err_at = IF ~ok /\ @ = 0 THEN run_hist.quits + 1 ELSE @]
  /\ UNCHANGED table
  /\ UNCHANGED << orch_vars, nav_vars, delay_vars, scrape_vars >>

\* The --limit and --concurrent a run is given.  The job lists and the pool
\* never read each other: the long runs are given the small pools, the
\* large pools the shortest run.
RunConfigs ==
  {cfg \in (1..MaxLimit) \X (1..MaxSessions) : cfg[1] = 1 \/ cfg[2] <= MaxPool}

QueueNext ==
  \/ \E cfg \in RunConfigs, ok \in BOOLEAN : Main(cfg[1], cfg[2], ok)
  \/ \E ok \in BOOLEAN : NewSession(ok)
  \/ \E ok \in BOOLEAN : BuildClient(ok)
  \/ \E resp \in Responses : CreateBatch(resp)
  \/ \E r1 \in Responses, r2 \in Responses : FetchPendingJobs(r1, r2)
  \/ \E resp \in Responses : ClaimJob(resp)
  \/ \E outs \in SeqsUpTo(ScrapeOutcomes, BLOCK_SIZE) : ScrapeBlock(outs)
  \/ \E ex \in BOOLEAN, resp \in Responses : HandleResult(ex, resp)
  \/ \E resp \in Responses : UpdateBatchProgress(resp)
  \/ \E resp \in Responses : CompleteBatch(resp)
  \/ \E ok \in BOOLEAN : Quit(ok)

\* The engine of Spec is not running here: one pool size stands for all.
QueueInit == Init /\ max_concurrent = 1

QueueSpec == QueueInit /\ [][QueueNext]_vars

\* ------------------------------------------------------ one scrape, steps
\* scrape_iptu_static ends with result r: the task builds its ScraperResult
\* (lines 375-400).
ScrapeEnds(s, r) ==
  [s EXCEPT !.pc = "done", !.result = r,
            !.outcome = MakeScraperResult(s.number, r)]

\* scrape_iptu_static is called and navigates to the form (lines 444-451).
StartScrape(number, goto_ok) ==
  /\ scrape.pc = "idle"
  /\ ~parsed.valid
  /\ scrape' = IF goto_ok
                 THEN [scrape EXCEPT !.pc = "form", !.number = number]
                 ELSE ScrapeEnds([scrape EXCEPT !.number = number],
                                 Err("webdriver error"))
  /\ UNCHANGED parsed
  /\ UNCHANGED << orch_vars, nav_vars, delay_vars, queue_vars >>

\* handle_cookie_and_fill_form (lines 473-631): the number is cleaned and
\* checked, the inputs are looked up, the four fields are typed (a browser
\* command may fail before field `fail_at`), the form is submitted and the
\* page source is read.
FillForm(inputs, fail_at, source_ok) ==
  /\ scrape.pc = "form"
  /\ LET parts == CleanNumber(scrape.number)
         fields == FormFields(parts)
     IN  scrape' =
           IF NumberRejected(parts)
             THEN ScrapeEnds(scrape, Err("Numero de cadastro invalido"))
           ELSE IF inputs = "error"
             THEN ScrapeEnds(scrape, Err("webdriver error"))
           ELSE IF inputs = "few"
             THEN ScrapeEnds(scrape, Err("Campos de entrada nao encontrados"))
           ELSE IF fail_at > 0
             THEN ScrapeEnds([scrape EXCEPT
                                !.typed = SubSeq(fields, 1, fail_at - 1)],
                             Err("webdriver error"))
           ELSE IF ~source_ok
             THEN ScrapeEnds([scrape EXCEPT !.typed = fields,
                                            !.submitted = TRUE],
                             Err("webdriver error"))
           ELSE [scrape EXCEPT !.pc = "extract", !.typed = fields,
                               !.submitted = TRUE]
  /\ UNCHANGED parsed
  /\ UNCHANGED << orch_vars, nav_vars, delay_vars, queue_vars >>

\* extract_data_static(driver).await, the value of scrape_iptu_static
\* (line 470).
ExtractData(page) ==
  /\ scrape.pc = "extract"
  /\ scrape' = ScrapeEnds([scrape EXCEPT !.extracted = TRUE, !.page = page],
                          ExtractDataStatic(page))
  /\ UNCHANGED parsed
  /\ UNCHANGED << orch_vars, nav_vars, delay_vars, queue_vars >>

\* DiretrixScraper::parse_property_table is given a page.
ParsePropertyTable(html) ==
  /\ scrape.pc = "idle"
  /\ ~parsed.valid
  /\ parsed' = [valid |-> TRUE, html |-> html,
                records |-> ParsePropertyTableResult(html)]
  /\ UNCHANGED scrape
  /\ UNCHANGED << orch_vars, nav_vars, delay_vars, queue_vars >>

ScrapeNext ==
  \/ \E number \in ContributorNumbers, ok \in BOOLEAN : StartScrape(number, ok)
  \/ \E inputs \in {"four", "few", "error"}, fail_at \in 0..4,
        ok \in BOOLEAN : FillForm(inputs, fail_at, ok)
  \/ \E page \in Pages : ExtractData(page)
  \/ \E html \in HtmlPages : ParsePropertyTable(html)

\* The scrape of one job does not read the engine: one pool size stands for
\* all.
ScrapeInit == Init /\ max_concurrent = 1

ScrapeSpec == ScrapeInit /\ [][ScrapeNext]_vars

\* ------------------------------------------------------- the properties
Count(seq, x) == Cardinality({i \in DOMAIN seq : seq[i] = x})

CeilDiv(n, k) == (n + k - 1) \div k

\* Index (from 0) of the chunk that job position p belongs to.
ChunkIndexOf(p) == (p - 1) \div max_concurrent

ResultIds == [i \in DOMAIN results |-> results[i].contributor_number]

\* C1: when process_batch_with_callback returns, the returned list has as
\* many outcomes as the job list has jobs, and every job id occurs in it
\* exactly as often as in the job list: no job dropped, none reported twice.
ThmC1_EveryJobReturnedOnce ==
  pc = "done" =>
    /\ Len(results) = Len(jobs)
    /\ \A id \in JobIds : Count(ResultIds, id) = Count(jobs, id)

\* A run over a list with a repeated id returned with a success and a failure.
WitC1_MixedRunReturned ==
  /\ pc = "done"
  /\ Len(jobs) >= 3
  /\ jobs[1] = jobs[3]
  /\ \E i \in DOMAIN results : results[i].success
  /\ \E i \in DOMAIN results : ~results[i].success

\* C2: a task of a later chunk has not started (it is not even in its
\* stagger wait) unless every task of every earlier chunk has completed.
ThmC2_ChunksSequential ==
  \A p \in DOMAIN job_state : \A q \in DOMAIN job_state :
    (ChunkIndexOf(p) < ChunkIndexOf(q) /\ job_state[q] # "new")
      => job_state[p] = "done"

\* A task of the second chunk runs, and two tasks of one chunk overlap.
WitC2_SecondChunkRunning ==
  /\ pc = "join"
  /\ chunk_base > 0
  /\ job_state[chunk_base + 1] = "running"
  /\ max_concurrent >= 2

\* C3: the i-th chunk taken is the i-th run of k consecutive jobs of the
\* list (only the last may be shorter, none is empty), and when the call
\* returns exactly ceil(n/k) chunks were taken and launched.
ThmC3_ChunksOfPoolSize ==
  LET n == Len(jobs)
      k == max_concurrent
      log == hist.chunk_log
  IN /\ \A i \in DOMAIN log :
          /\ log[i] = SubSeq(jobs, (i - 1) * k + 1, Min(i * k, n))
          /\ Len(log[i]) >= 1
          /\ Len(log[i]) <= k
          /\ Len(log[i]) < k => i = CeilDiv(n, k)
     /\ pc = "done" => /\ Len(log) = CeilDiv(n, k)
                       /\ hist.launches = CeilDiv(n, k)

\* 3 jobs with a pool of 2 were processed as chunks of sizes 2 and 1.
WitC3_TwoThenOne ==
  /\ pc = "done"
  /\ Len(jobs) = 3
  /\ max_concurrent = 2
  /\ Len(hist.chunk_log) = 2
  /\ Len(hist.chunk_log[1]) = 2
  /\ Len(hist.chunk_log[2]) = 1

\* C4: every evaluation of should_cooldown returns true exactly when at
\* least 2 of the failures recorded since the window was last cleared are
\* younger than 600 s at the time of the evaluation.
ThmC4_CooldownIffTwoRecent ==
  hist.chk.valid => (hist.chk.result <=> hist.chk.recent >= 2)

\* Two failures in the window made the check true and the cooldown begins.
WitC4_TwoFailuresTrigger ==
  /\ hist.chk.valid
  /\ hist.chk.result
  /\ pc = "cooldown"
  /\ cooldown_i = 0
  /\ Len(hist.fail_hist) = 2

\* C5: once record_success was the latest tracker update, the tracker is
\* back in its initial state (window, counter, flag and last-cooldown
\* marker cleared) and should_cooldown is false.
ThmC5_SuccessResets ==
  hist.last_op = "success" =>
    /\ tracker = NewTracker
    /\ ~ShouldCooldown(tracker, now)

\* A success recorded after several failures (and a cooldown).
WitC5_SuccessAfterFailures ==
  /\ hist.last_op = "success"
  /\ hist.before_success >= 2

ThmC7_CooldownFixedAndDraining ==
  /\ (pc \in {"launch", "callback"} /\ hist.apply.valid) =>
       IF hist.apply.triggered
         THEN /\ now = hist.apply.at + CooldownDurationSecs
              /\ hist.cd_slept = CooldownDurationSecs
              /\ hist.cd_steps = 10
              /\ hist.cd_exit.valid
              /\ hist.cd_exit.window = 0
              /\ ~hist.cd_exit.active
              /\ tracker.failure_timestamps = <<>>
              /\ ~tracker.cooldown_active
         ELSE now = hist.apply.at
  /\ pc = "cooldown" => /\ hist.cd_slept = cooldown_i * CooldownSleepSecs
                        /\ tracker.cooldown_active
  /\ pc \in {"launch", "join"} => Len(tracker.failure_timestamps) < 2

\* A triggered cooldown has just returned to result processing.
WitC7_CooldownReturned ==
  /\ pc = "callback"
  /\ hist.apply.valid
  /\ hist.apply.triggered
  /\ hist.cd_done >= 1

CexC9_CallbacksInCompletionOrder ==
  \A i \in DOMAIN callbacks :
    i \in DOMAIN hist.completion_order
      /\ callbacks[i].pos = hist.completion_order[i]

\* C9, amended: the callbacks of a chunk are made after all its tasks have
\* completed, in submission order (the i-th callback is for the i-th job of
\* the list), whatever the order in which the tasks completed.
ThmC9_CallbacksInSubmissionOrder ==
  \A i \in DOMAIN callbacks :
    /\ callbacks[i].pos = i
    /\ callbacks[i].joined
    /\ callbacks[i].result.contributor_number = jobs[i]

\* A callback was made for a job that was not the next one to complete.
WitC9_CompletionOrderDiffers ==
  \E i \in DOMAIN callbacks : callbacks[i].pos # hist.completion_order[i]

\* C10: the i-th call of the callback has completed = i and total = number
\* of jobs, is made after the tracker was updated for that same job (i
\* updates so far, the i-th for this job), and when the call returns the
\* callback was called exactly once for every job.
ThmC10_CallbackOncePerJob ==
  /\ \A i \in DOMAIN callbacks :
       /\ callbacks[i].completed = i
       /\ callbacks[i].total = Len(jobs)
       /\ callbacks[i].tracked = i
       /\ hist.track_log[i] = callbacks[i].pos
       /\ callbacks[i].result = task_out[callbacks[i].pos]
  /\ \A i \in DOMAIN callbacks : \A j \in DOMAIN callbacks :
       callbacks[i].pos = callbacks[j].pos => i = j
  /\ pc = "done" => /\ Len(callbacks) = Len(jobs)
                    /\ {callbacks[i].pos : i \in DOMAIN callbacks} = 1..Len(jobs)

\* Two jobs in one chunk: the callback was called twice with total = 2.
WitC10_TwoJobsOneChunk ==
  /\ pc = "done"
  /\ Len(jobs) = 2
  /\ max_concurrent = 2
  /\ Len(callbacks) = 2
  /\ callbacks[2].completed = 2
  /\ callbacks[2].total = 2

\* A task that was created and has not completed: it holds its driver.
InFlight(p) == job_state[p] \in {"stagger", "running"}

\* C11: the task of the job at index i of its chunk holds the driver of pool
\* slot i, an index of the pool, from its creation on; a job whose task was
\* not created holds none; and two tasks in flight at the same time never
\* hold the driver of the same slot.
ThmC11_OneJobPerSession ==
  /\ \A p \in DOMAIN job_state :
       IF job_state[p] = "new"
         THEN task_driver[p] = None
         ELSE /\ task_driver[p] = Some((p - 1) % max_concurrent)
              /\ task_driver[p][1] \in 0..(max_concurrent - 1)
  /\ \A p \in DOMAIN job_state : \A q \in DOMAIN job_state :
       (p # q /\ InFlight(p) /\ InFlight(q)) => task_driver[p] # task_driver[q]

\* The two jobs of a chunk run at the same time, on slots 0 and 1.
WitC11_TwoRunningTwoSessions ==
  /\ max_concurrent = 2
  /\ Len(jobs) >= 2
  /\ job_state[1] = "running"
  /\ job_state[2] = "running"
  /\ task_driver[1] = Some(0)
  /\ task_driver[2] = Some(1)

\* C12: every operation on the tracker (the cooldown check of a chunk, the
\* recording of an outcome with the cooldown decision that follows it, the
\* cooldown itself and its reset) ran with the mutex guard held; there is
\* never more than one guard, it exists exactly while the lock is held, and
\* it is held only inside those sections; and while a cooldown runs, the
\* lock stays held and the decision that started it is still the latest
\* tracker operation.
ThmC12_TrackerUnderMutex ==
  /\ ~hist.unguarded
  /\ hist.guards = (IF lock_held THEN 1 ELSE 0)
  /\ lock_held => pc \in {"check", "track", "cooldown"}
  /\ pc = "cooldown" =>
       /\ lock_held
       /\ tracker.cooldown_active
       /\ hist.apply.valid /\ hist.apply.triggered

\* A failure was recorded and the cooldown it triggered is under way, with
\* the guard taken for the recording still held.
WitC12_CooldownUnderLock ==
  /\ pc = "cooldown"
  /\ cooldown_ret = "callback"
  /\ cooldown_i >= 1
  /\ lock_held
  /\ hist.guards = 1
  /\ hist.last_op = "failure"

\* C18: a call for n >= 1 jobs with pool size k has paused ceil(n/k) - 1
\* times when it returns; at every moment the number of pauses taken is the
\* number of chunks that are over and have a successor, so that a pause
\* follows every chunk but the last and none follows the last.
ThmC18_PausesBetweenChunks ==
  /\ (pc = "done" /\ Len(jobs) >= 1) =>
       hist.pauses = CeilDiv(Len(jobs), max_concurrent) - 1
  /\ (pc = "done" /\ Len(jobs) = 0) => hist.pauses = 0
  /\ (pc \in {"cooldown", "launch", "join", "track", "callback"}) =>
       hist.pauses = Len(hist.chunk_log) - 1
  /\ (pc = "check" /\ Len(hist.chunk_log) >= 1) =>
       hist.pauses = Len(hist.chunk_log) - (IF remaining = <<>> THEN 1 ELSE 0)

\* Three jobs on a pool of one returned after two pauses.
WitC18_ThreeChunksTwoPauses ==
  /\ pc = "done"
  /\ Len(jobs) = 3
  /\ max_concurrent = 1
  /\ hist.pauses = 2
  /\ Len(hist.chunk_log) = 3

\* C13: when the first check of a call finds the target page, the call has
\* returned Ok in its first attempt with no goto, no strategy invoked and no
\* back: the browser was not navigated at all.
ThmC13_FirstCheckHitReturns ==
  nav_hist.first_check = "hit" =>
    /\ nav.pc = "done"
    /\ nav.result = "Ok"
    /\ nav.attempt = 1
    /\ ~nav.navigated
    /\ nav_hist.gotos = 0
    /\ nav_hist.tried = 0
    /\ nav_hist.backs = 0

\* The first check found the target and the call returned.
WitC13_AlreadyOnTarget ==
  /\ nav_hist.first_check = "hit"
  /\ nav_hist.pre_checks = 1
  /\ nav.result = "Ok"

\* What holds in every state of a call, for C14.
AttemptsBounded ==
  /\ nav.attempt <= 4
  /\ nav_hist.gotos <= 4
  /\ Len(nav_hist.outcomes) <= 4
  /\ nav.result = "Exhausted" =>
       /\ nav.pc = "done"
       /\ nav.attempt = 4
       /\ nav_hist.gotos = 4
       /\ nav_hist.pre_checks = 4
       /\ Len(nav_hist.outcomes) = 4
  /\ (nav.pc = "done" /\ nav.result \notin {"Ok", "Error"}) =>
       nav.result = "Exhausted"

\* C14: a call in which every browser command succeeds and no check finds
\* the target ends, and ends as Exhausted, after exactly 4 attempts (4 gotos,
\* 4 checks at the top, 4 attempts that ended in a soft error or a plain
\* miss, in any mix); no call makes a fifth attempt, and every call ends.
ThmC14_ExhaustedAfterFourAttempts ==
  /\ []AttemptsBounded
  /\ <>(nav.pc = "done")

\* A call ended as Exhausted after soft errors and plain misses, mixed.
WitC14_MixedExhausted ==
  /\ nav.result = "Exhausted"
  /\ nav_hist.outcomes = << "soft", "miss", "miss", "soft" >>

\* C15: when the first three attempts of a call each end in a soft error,
\* the call is granted a fourth attempt; and when nothing else went wrong
\* (no plain miss, no failed browser command) the call has ended in that
\* fourth attempt with Ok.
ThmC15_ThreeSoftErrorsThenTarget ==
  (nav_hist.outcomes = << "soft", "soft", "soft" >> /\ nav.result # "Error") =>
    /\ nav.attempt = 4
    /\ nav.result \in {"none", "Ok"}
    /\ nav.pc = "done" => nav.result = "Ok"

\* Three soft errors, then the check at the top of attempt 4 found the
\* target and the call returned Ok.
WitC15_DetectedInFourthAttempt ==
  /\ nav_hist.outcomes = << "soft", "soft", "soft" >>
  /\ nav_hist.last = "pre_hit"
  /\ nav.attempt = 4
  /\ nav.result = "Ok"

\* C16: within an attempt the strategies invoked so far are the first ones
\* of the list breadcrumb, menu link, direct href, span, consultas menu, in
\* that order; navigated is set exactly when one of them navigated, and
\* that one is then the last that was invoked; and as long as none
\* navigated, every strategy whose turn has come was invoked.
ThmC16_StrategiesInOrder ==
  nav.pc \in {"strategy", "settle"} =>
    /\ Len(nav_hist.invoked) <= 5
    /\ \A i \in DOMAIN nav_hist.invoked :
         nav_hist.invoked[i] =
           << "breadcrumb", "menu_link", "direct_href", "span",
              "consultas_menu" >>[i]
    /\ nav.navigated <=> nav_hist.nav_by # "none"
    /\ nav.navigated =>
         nav_hist.invoked[Len(nav_hist.invoked)] = nav_hist.nav_by
    /\ ~nav.navigated => Len(nav_hist.invoked) = nav.strategy - 1

\* The third strategy navigated after the first two did not, and the turn
\* of the last two has passed without their being invoked.
WitC16_DirectLinkNavigated ==
  /\ nav.pc = "settle"
  /\ nav.navigated
  /\ nav_hist.nav_by = "direct_href"
  /\ nav_hist.invoked = << "breadcrumb", "menu_link", "direct_href" >>

\* C17 as stated: after a soft error the machine has navigated back and is
\* at the check of the next attempt, whatever the attempt was (failed
\* browser commands aside).
CexC17_SoftErrorAlwaysRetried ==
  (nav_hist.last = "soft" /\ nav.result # "Error") =>
    /\ nav_hist.last_back
    /\ nav.pc = "precheck"
    /\ nav.result = "none"

\* C17, amended: the 404 test comes before the target check of an attempt.
\* On a match the machine has navigated back and has not reported success;
\* in attempts 1 to 3 it is then at the check of the next attempt, in
\* attempt 4 the call has ended as Exhausted (failed browser commands
\* aside).  Without a match the target check of the same attempt is next.
ThmC17_SoftErrorBackAndRetry ==
  /\ nav_hist.last = "soft" =>
       /\ nav_hist.last_back
       /\ nav.result # "Ok"
       /\ (nav.result # "Error" /\ nav_hist.last_attempt < 4) =>
            /\ nav.pc = "precheck"
            /\ nav.attempt = nav_hist.last_attempt + 1
            /\ nav.result = "none"
       /\ (nav.result # "Error" /\ nav_hist.last_attempt = 4) =>
            /\ nav.pc = "done"
            /\ nav.result = "Exhausted"
  /\ nav_hist.last = "clean" => nav.pc = "postcheck"
  /\ nav.pc = "postcheck" => nav_hist.last = "clean"

\* The second attempt met a soft error: the machine went back and stands
\* at the check of the third attempt.
WitC17_RetryAfterSoftError ==
  /\ nav_hist.last = "soft"
  /\ nav_hist.last_attempt = 2
  /\ nav_hist.last_back
  /\ nav.pc = "precheck"
  /\ nav.attempt = 3

\* C19 as stated: slot 0 has no stagger delay, every later slot has a
\* positive one, and no slot has a shorter delay than a slot before it.
CexC19_StaggerNeverShorter ==
  \A k \in DOMAIN stagger_delays : \A l \in DOMAIN stagger_delays :
    /\ (k = 1) => stagger_delays[k] = 0
    /\ (k > 1) => stagger_delays[k] > 0
    /\ (k < l) => stagger_delays[k] <= stagger_delays[l]

\* C19, amended: slot 0 has no stagger delay; the delay of a later slot i is
\* positive and lies in [6000 + 2000 i, 12000 + 3000 i] milliseconds, a
\* range whose two ends grow with i: a later slot's delay is above the
\* lower end of every earlier slot's range, and an earlier slot's delay is
\* below the upper end of every later slot's range.
ThmC19_StaggerRangesGrow ==
  \A k \in DOMAIN stagger_delays :
    LET i == k - 1
        d == stagger_delays[k]
    IN  IF i = 0
          THEN d = 0
          ELSE /\ d > 0
               /\ 6000 + 2000 * i <= d
               /\ d <= 12000 + 3000 * i
               /\ \A l \in DOMAIN stagger_delays :
                    (1 < l /\ l < k) =>
                      /\ d > 6000 + 2000 * (l - 1)
                      /\ stagger_delays[l] < 12000 + 3000 * i

\* Three slots drew their delays, and slot 2 drew less than slot 1.
WitC19_LaterSlotShorter ==
  /\ Len(stagger_delays) = 3
  /\ stagger_delays[1] = 0
  /\ stagger_delays[2] = 15000
  /\ stagger_delays[3] = 10000

\* C20: the wait of a delay kind is at least 0.8 times the lower end and at
\* most 1.2 times the upper end of the kind's base range (Quick 3000-4000,
\* Normal 4000-8000, Slow 8000-18000 milliseconds), for every base value
\* and every jitter from -20 to 20 percent.
ThmC20_WaitWithinJitteredRange ==
  wait_sample.kind # "none" =>
    LET lo == IF wait_sample.kind = "Quick" THEN 3000
              ELSE IF wait_sample.kind = "Normal" THEN 4000 ELSE 8000
        hi == IF wait_sample.kind = "Quick" THEN 4000
              ELSE IF wait_sample.kind = "Normal" THEN 8000 ELSE 18000
    IN  /\ wait_sample.delay_ms \in lo..hi
        /\ wait_sample.jitter \in -20..20
        /\ lo * 80 <= wait_sample.final_delay * 100
        /\ wait_sample.final_delay * 100 <= hi * 120

\* The shortest Quick wait: base 3000 ms, jitter -20 percent, 2400 ms.
WitC20_ShortestQuickWait ==
  /\ wait_sample.kind = "Quick"
  /\ wait_sample.delay_ms = 3000
  /\ wait_sample.jitter = -20
  /\ wait_sample.final_delay = 2400

\* ------------------------------------------- the properties, queue mode
\* The rows of the block main is working on.
BlockRows == {run.block[i] : i \in DOMAIN run.block}

\* Main has ended, by its last statement or by an error.
RunEnded == run.pc \in {"done", "aborted"}

\* The calls of the queue client whose error main returns.
QueueClientCalls == {"create_batch", "fetch", "claim", "progress", "complete"}

\* C21: when process_block is entered for a block, every job of the block
\* is marked "p" in its list: processing never begins while a job of the
\* block is still unclaimed.
CexC21_BlockClaimedBeforeProcessing ==
  run.pc = "process" => \A id \in BlockRows : table[id] = "p"

\* C22: a claimed job is never lost: when the run has ended, by its last
\* statement or by an error, every row is either pending, and a later run
\* fetches it, or marked "s" after a successful scrape or "e" after a failed
\* one; no row is left in "p".
CexC22_ClaimedJobNeverLost ==
  RunEnded =>
    \A id \in QueueIds :
      \/ table[id] = "null"
      \/ table[id] = "s" /\ run_hist.outcome[id] \in {"owner", "no_owner"}
      \/ table[id] = "e" /\ run_hist.outcome[id] = "failed"

\* C24 as stated: whenever the run is aborted, it is pool construction that
\* failed.
CexC24_OnlyPoolFailureFatal ==
  run.pc = "aborted" => run_hist.abort = "pool"

\* C24: a session that does not start aborts the run at once, in new and
\* before any job is scraped; once jobs have been scraped, no outcome, upload
\* or mark aborts the run: only an error of a queue-client call does.
ThmC24_SessionFailureAbortsBeforeJobs ==
  /\ run_hist.session_err =>
        /\ run.pc = "aborted"
        /\ run_hist.abort = "pool"
        /\ run_hist.scraped = 0
  /\ run.pc \notin {"start", "new", "aborted"} =>
        Len(run.driver_pool) = run.concurrent
  /\ run.pc = "aborted" /\ run_hist.scraped > 0 =>
        run_hist.abort \in QueueClientCalls

WitC24_SecondSessionFails ==
  /\ run_hist.session_err
  /\ run_hist.created >= 1
  /\ run.pc = "aborted"

\* C25 as stated: the sessions of a pool all have different User-Agent
\* strings, whatever the size of the pool.
CexC25_AllSessionsDistinct ==
  \A i, j \in DOMAIN run.driver_pool :
    i # j => run.driver_pool[i] # run.driver_pool[j]

\* C25: session i (from 0) has string number i mod 5 of the list, so two
\* sessions of a pool share a string exactly when their indices differ by a
\* multiple of 5: the strings of a pool are all different only in pools of
\* at most 5 sessions.
ThmC25_UserAgentRoundRobin ==
  LET pool == run.driver_pool
      n == Len(UserAgents)
  IN  /\ \A i \in DOMAIN pool : pool[i] = UserAgents[((i - 1) % n) + 1]
      /\ \A i, j \in DOMAIN pool :
            (pool[i] = pool[j]) <=> ((i - 1) % n = (j - 1) % n)
      /\ Len(pool) <= n => CexC25_AllSessionsDistinct

WitC25_SixthSessionRepeatsFirst ==
  /\ Len(run.driver_pool) >= Len(UserAgents) + 1
  /\ run.driver_pool[Len(UserAgents) + 1] = run.driver_pool[1]

\* C29: shutdown calls quit on every session of the pool: when it has
\* returned, as many quits were attempted as the pool has sessions, also
\* when one of them failed; a failed quit never ends the run with an error.
ThmC29_ShutdownQuitsEverySession ==
  /\ run.pc = "done" => run_hist.quits = Len(run.driver_pool)
  /\ run_hist.quit_err_at > 0 =>
        /\ run.pc \in {"shutdown", "done"}
        /\ run_hist.abort = "none"

WitC29_QuitsAfterFailedQuit ==
  /\ run.pc = "done"
  /\ run_hist.quit_err_at = 1
  /\ run_hist.quits >= 2
\* C28: a record_success that follows a record_success, with no failure
\* recorded between the two, leaves the tracker exactly as the first one
\* left it: window empty, failure_count 0.
ThmC28_RecordSuccessIdempotent ==
  [][(/\ Len(hist'.track_log) = Len(hist.track_log) + 1
      /\ hist.last_op = "success"
      /\ hist'.last_op = "success")
     => /\ tracker' = tracker
        /\ tracker'.failure_timestamps = <<>>
        /\ tracker'.failure_count = 0]_vars

\* Three results were tracked and the latest success found the counter at 0
\* although a failure was recorded before: it followed another success.
WitC28_SuccessAfterSuccess ==
  /\ Len(hist.track_log) >= 3
  /\ hist.last_op = "success"
  /\ hist.before_success = 0
  /\ hist.fail_positions # {}
  /\ tracker = NewTracker

\* C30: after an evaluation of should_cooldown every failure timestamp of
\* age 600 s or less is still in the window, and no entry older than 600 s
\* is.
CexC30_AgeUpTo600Kept ==
  hist.apply.valid =>
    /\ \A i \in DOMAIN hist.fail_hist :
          hist.apply.at - hist.fail_hist[i] <= FailureWindowSecs =>
            \E j \in DOMAIN tracker.failure_timestamps :
              tracker.failure_timestamps[j] = hist.fail_hist[i]
    /\ \A j \in DOMAIN tracker.failure_timestamps :
          hist.apply.at - tracker.failure_timestamps[j] <= FailureWindowSecs
\* ------------------------------------------- the properties, one scrape
\* A marker element of the page is there but gives no value.
NoData(elem) == elem.present /\ FieldOf(elem) = None

\* C26: extraction ends with an error, which the task turns into a failed
\* result carrying its message, exactly when both marker elements
\* (txtNumIPTU, txtProprietarioNome) are absent from the page; when a marker
\* is there the result is a success without error, also when no element
\* gives a value; and parse_property_table returns an empty list, not an
\* error, for a page whose zero-results marker (#msgtab) is shown.
ThmC26_MalformedIffNoMarker ==
  LET iptu == scrape.page.txtNumIPTU
      owner == scrape.page.txtProprietarioNome
  IN  /\ scrape.extracted =>
            /\ ~scrape.result.ok <=> (~iptu.present /\ ~owner.present)
            /\ scrape.outcome.success = scrape.result.ok
            /\ scrape.outcome.error = None <=> scrape.result.ok
            /\ ~scrape.result.ok => scrape.result.err \in ErrorMessages
            /\ (iptu.present \/ owner.present)
                 /\ (iptu.present => NoData(iptu))
                 /\ (owner.present => NoData(owner))
               => /\ scrape.result = Ok(EmptyData)
                  /\ scrape.outcome.success
      /\ (/\ parsed.valid
          /\ parsed.html.msgtab.present
          /\ \A i \in DOMAIN parsed.html.msgtab.style :
                parsed.html.msgtab.style[i] # "none")
         => parsed.records = <<>>

\* One marker is on the page, the other is not, and it gives no value: the
\* scrape is a success with no data.
WitC26_MarkerWithoutData ==
  /\ scrape.extracted
  /\ scrape.page.txtNumIPTU.present
  /\ scrape.page.txtNumIPTU.text = Some("")
  /\ ~scrape.page.txtProprietarioNome.present
  /\ scrape.outcome.success
  /\ scrape.outcome.numero_cadastro = None

\* C27: once the form step of a scrape is over, the form was filled or
\* submitted only if the number, with "." and "-" removed, has exactly 11
\* characters that are all digits; for any other number the scrape has
\* failed and nothing was typed or submitted.
CexC27_OnlyElevenDigitsAccepted ==
  LET clean == Remove(Remove(scrape.number, "."), "-")
      valid == Len(clean) = NumberLen /\ \A i \in DOMAIN clean : clean[i] = Digit
  IN  scrape.pc \in {"extract", "done"} /\ ~valid
        => /\ scrape.typed = <<>>
           /\ ~scrape.submitted
           /\ scrape.pc = "done"
           /\ ~scrape.outcome.success

\* ------------------------------------------- the properties, outcomes
\* An outcome is consistent with the job it was built for.
ConsistentOutcome(r, id) ==
  /\ r.success <=> (r.error = None)
  /\ ~r.success =>
       /\ r.contributor_number = id
       /\ \E e \in ErrorMessages : r.error = Some(e)
       /\ r.numero_cadastro = None
       /\ r.nome_proprietario = None

\* C31: every outcome (of a completed task, handed to the callback, or in
\* the returned list) has success true exactly when its error is absent,
\* and a failed outcome carries the id of its job, an error message and no
\* extracted data field.
ThmC31_OutcomeConsistent ==
  /\ \A p \in DOMAIN task_out :
       job_state[p] = "done" => ConsistentOutcome(task_out[p], jobs[p])
  /\ \A i \in DOMAIN callbacks :
       ConsistentOutcome(callbacks[i].result, jobs[callbacks[i].pos])
  /\ \A i \in DOMAIN results : ConsistentOutcome(results[i], jobs[i])

\* A returned list holds a failed outcome for the second of two different
\* jobs and a successful one with its data for the first.
WitC31_FailedAndSuccessfulOutcome ==
  /\ pc = "done"
  /\ Len(results) >= 2
  /\ jobs[1] # jobs[2]
  /\ results[1].success
  /\ results[1].nome_proprietario # None
  /\ ~results[2].success
  /\ results[2].contributor_number = jobs[2]

\* The latest tracker update recorded a failure that left 2 or more
\* failures younger than 600 s in the window.
FailureFilledWindow ==
  /\ hist.last_op = "failure"
  /\ hist.chk.valid
  /\ hist.chk.recent >= CooldownThreshold

\* C32: when recording a failed outcome leaves 2 or more entries in the
\* (pruned) window, the 1200 s cooldown runs at once inside result
\* processing with the tracker lock held: while it runs neither the
\* callback of that job nor any later outcome of the chunk has been
\* handled, the callback of that job is made only after the full cooldown,
\* and a call whose last outcome triggered it returns only after it.
ThmC32_CooldownInsideResultProcessing ==
  /\ (pc = "cooldown" /\ cooldown_ret = "callback") =>
       /\ FailureFilledWindow
       /\ lock_held
       /\ now = hist.apply.at + hist.cd_slept
       /\ cur_pos = chunk_base + chunk_pos
       /\ Len(hist.track_log) = cur_pos
       /\ Len(callbacks) = cur_pos - 1
       /\ Len(results) = cur_pos - 1
  /\ (pc = "callback" /\ FailureFilledWindow) =>
       /\ hist.apply.valid /\ hist.apply.triggered
       /\ hist.cd_slept = CooldownDurationSecs
       /\ now = hist.apply.at + CooldownDurationSecs
       /\ Len(callbacks) = cur_pos - 1
       /\ ~lock_held
  /\ (pc = "done" /\ FailureFilledWindow) =>
       /\ hist.apply.valid /\ hist.apply.triggered
       /\ hist.cd_slept = CooldownDurationSecs
       /\ now >= hist.apply.at + CooldownDurationSecs
       /\ ~lock_held

\* In a later call on the same engine the first job of the only chunk of
\* two failed soon after the failure that ended the call before: the
\* cooldown has run in full, and neither the callback of that job nor the
\* second outcome of the chunk has been handled.
WitC32_CooldownBeforeCallbackAndRest ==
  /\ pc = "callback"
  /\ FailureFilledWindow
  /\ remaining = <<>>
  /\ Len(chunk) = 2
  /\ cur_pos = 1
  /\ callbacks = <<>>
  /\ hist.cd_slept = CooldownDurationSecs

\* C33: the returned list holds the outcomes in the order of the job list:
\* at every moment the i-th outcome pushed is the one built for the i-th
\* job from that job's own scrape, whatever the order in which the tasks
\* completed, and on return there is one outcome per position.
ThmC33_ResultsInInputOrder ==
  /\ \A i \in DOMAIN results :
       /\ i <= Len(jobs)
       /\ results[i].contributor_number = jobs[i]
       /\ results[i] = MakeScraperResult(jobs[i], hist.scrape_out[i])
  /\ Len(results) <= chunk_base + Len(chunk)
  /\ pc \in {"launch", "join"} => Len(results) = chunk_base
  /\ pc = "done" => DOMAIN results = DOMAIN jobs

\* Two different jobs of one chunk, the second completed first and failed,
\* the first succeeded: the returned list follows the job list.
WitC33_SecondJobCompletedFirst ==
  /\ pc = "done"
  /\ Len(jobs) = 2
  /\ jobs[1] # jobs[2]
  /\ hist.completion_order = <<2, 1>>
  /\ results[1].success
  /\ ~results[2].success

\* Number of failed outcomes at the end of the sequence of tracker updates
\* log (positions of the jobs in the order their outcomes were recorded),
\* i.e. the failures recorded since the last success.
RECURSIVE FailuresSinceSuccess(_)
FailuresSinceSuccess(log) ==
  IF log = <<>> THEN 0
  ELSE IF task_out[log[Len(log)]].success THEN 0
  ELSE 1 + FailuresSinceSuccess(SubSeq(log, 1, Len(log) - 1))

\* C34: in every tracker state the window holds at most failure_count
\* entries and failure_count is the number of failures recorded since the
\* last success; a cooldown that has returned left the window empty and
\* the counter as it was, a success is the only reset.
ThmC34_WindowWithinFailureCount ==
  /\ Len(tracker.failure_timestamps) <= tracker.failure_count
  /\ tracker.failure_count = FailuresSinceSuccess(hist.track_log)
  /\ (pc = "callback" /\ FailureFilledWindow) =>
       /\ tracker.failure_timestamps = <<>>
       /\ tracker.failure_count >= CooldownThreshold
  /\ hist.last_op = "success" => tracker.failure_count = 0

\* Three failures in a row with a cooldown after the second: the counter
\* is 3 while the window holds the third failure only.
WitC34_CountAheadOfWindow ==
  /\ tracker.failure_count = 3
  /\ Len(tracker.failure_timestamps) = 1
  /\ hist.cd_done = 1

\* A step of the call itself: any step but the entry and the passing of
\* time.
Progress ==
  \/ LockTracker
  \/ ChunkCheck
  \/ Return
  \/ CooldownSleep
  \/ CooldownEnd
  \/ Launch
  \/ \E p \in 1..MaxCallJobs : StartJob(p)
  \/ \E p \in 1..MaxCallJobs, r \in ScrapeResults : FinishJob(p, r)
  \/ Joined
  \/ TrackResult
  \/ Callback
  \/ EndChunk

\* The call is never stuck, a cooldown takes at most its 10 sleeps and is
\* over outside the cooldown loop, the lock is free wherever the call is
\* about to ask for it, and a call that returned has taken every chunk.
NeverStuck ==
  /\ pc \notin {"idle", "done"} => ENABLED Progress
  /\ pc = "cooldown" => /\ cooldown_i <= CooldownIterations
                        /\ hist.cd_slept <= CooldownDurationSecs
                        /\ lock_held
  /\ pc # "cooldown" => ~tracker.cooldown_active
  /\ pc \in {"launch", "join", "callback", "done"} => ~lock_held
  /\ pc = "done" =>
       /\ remaining = <<>>
       /\ Len(hist.chunk_log) = CeilDiv(Len(jobs), max_concurrent)
       /\ completed = Len(jobs)
       /\ \A p \in DOMAIN job_state : job_state[p] = "done"

\* C36: when every scrape returns, every call of
\* process_batch_with_callback returns with all chunks processed: it is
\* never stuck on the tracker lock or anywhere else, every cooldown ends
\* after its 10 sleeps, and the call eventually returns.
ThmC36_CallTerminates ==
  /\ []NeverStuck
  /\ <>(pc = "done")

\* A call over two chunks returned after a cooldown.
WitC36_ReturnedAfterCooldown ==
  /\ pc = "done"
  /\ Len(hist.chunk_log) = 2
  /\ hist.cd_done >= 1
  /\ hist.cd_slept = CooldownDurationSecs

\* C37: upload_results is never called for a failed outcome, only for
\* successful ones; the row of a job whose latest scrape failed is left as
\* it was or marked "e", and a row marked "s" belongs to a job that was
\* scraped with an owner name.
ThmC37_FailedNeverUploaded ==
  /\ "failed" \notin run_hist.uploads
  /\ run_hist.uploads \subseteq {"owner", "no_owner"}
  /\ \A id \in QueueIds :
       /\ run_hist.outcome[id] = "failed" => table[id] \in {"null", "p", "e"}
       /\ table[id] = "e" => run_hist.outcome[id] = "failed"
       /\ table[id] = "s" => run_hist.outcome[id] = "owner"

\* A block with a failed and a successful job was handled: the failed one
\* is marked "e", the successful one was uploaded and marked "s".
WitC37_FailedMarkedSuccessUploaded ==
  /\ run.pc = "progress"
  /\ run.job_results = << "failed", "owner" >>
  /\ table[run.block[1]] = "e"
  /\ table[run.block[2]] = "s"
  /\ run_hist.uploads = {"owner"}

\* The counters main keeps in queue mode.
Totals == << run.total_processed, run.total_success, run.total_error >>

\* C39: in queue mode total_processed = total_success + total_error and
\* total_processed <= limit in every state; the counters only change at
\* the end of a block, where they count every job scraped so far; and the
\* latest update_batch_progress reported exactly the counters, for every
\* block that was added to them.
ThmC39_CountersConsistent ==
  /\ run.total_processed = run.total_success + run.total_error
  /\ run.total_processed <= run.limit
  /\ run.pc # "results" => run.total_processed = run_hist.scraped
  /\ (run.pc # "progress" /\ run_hist.abort # "progress") =>
       IF run.total_processed = 0
         THEN run_hist.progress = <<>>
         ELSE run_hist.progress = Totals

\* The second block brought a run of limit 3 to its limit, with a success
\* and an error counted, and the progress was reported.
WitC39_LimitReachedInSecondBlock ==
  /\ run.pc = "complete"
  /\ run.limit = 3
  /\ run.block_idx = 1
  /\ run.total_processed = 3
  /\ run.total_success >= 1
  /\ run.total_error >= 1
  /\ run_hist.progress = Totals

\* C38: when the command has returned, by its last statement or by an
\* error, quit was called for every browser session that was created.
CexC38_SessionsClosedOnReturn ==
  RunEnded => run_hist.quits = run_hist.created

\* ------------------------------------ the properties, successive calls
\* No chunk of the current call has been taken yet.
CallNotStarted == hist.chunk_log = <<>>

\* C35: the tracker is the engine's and outlives the calls: until a call
\* takes its first chunk the tracker is the one the engine held when the
\* call was entered, with the failures the call before left in it; and
\* when the first outcome of a later call is a failure recorded less than
\* 600 s after the latest failure of the call before, with no success in
\* between, the cooldown is triggered.
ThmC35_TrackerOutlivesCall ==
  /\ CallNotStarted => tracker = hist.entry
  /\ (CallNotStarted /\ hist.calls >= 2 /\ hist.last_op = "failure") =>
       /\ tracker.failure_count >= 1
       /\ hist.fail_hist # <<>> => tracker.failure_timestamps # <<>>
  /\ ( /\ hist.calls >= 2
       /\ hist.track_log = <<1>>
       /\ hist.last_op = "failure"
       /\ hist.last_fail.valid
       /\ hist.last_fail.within
       /\ hist.last_fail.consecutive ) =>
       /\ hist.last_fail.triggered
       /\ pc = "cooldown" \/ hist.cd_slept = CooldownDurationSecs
       /\ pc \in {"cooldown", "callback"} =>
            hist.apply.valid /\ hist.apply.triggered

\* The first job of a second call failed 599 s after the failure that
\* ended the first call, and the cooldown runs with the second job of the
\* chunk still to be handled.
WitC35_CooldownAcrossCalls ==
  /\ hist.calls = 2
  /\ pc = "cooldown"
  /\ cooldown_ret = "callback"
  /\ hist.track_log = <<1>>
  /\ Len(chunk) = 2
  /\ Len(hist.entry.failure_timestamps) = 1
  /\ now - hist.entry.failure_timestamps[1] >= FailureWindowSecs - 1
====
